---- MODULE Spec2Model ----
(***************************************************************************)
(* Model of the DocsToMark desktop converter: the content quality gate of  *)
(* convert_file_internal, the Markdown feature classifier                  *)
(* validate_markdown_content, and the bookkeeping they feed (conversion    *)
(* results, history, recent files).                                        *)
(*                                                                         *)
(* A text is a sequence of one-character strings.  Python's str methods    *)
(* and the regular expressions of the source are modelled by what they     *)
(* compute on such sequences.                                              *)
(*                                                                         *)
(* The file list is modelled with its handlers, whole and, for the batch   *)
(* conversion, step by step; the BatchUpdater with its lock, its timers    *)
(* and the threads that call it; the UICache, the ConversionHistory and    *)
(* the RecentFilesManager also called on their own.                        *)
(***************************************************************************)
EXTENDS Integers, Sequences, FiniteSets, TLC

(***************************************************************************)
(* Bounds of the model.                                                    *)
(***************************************************************************)
\* largest number of repetitions of the unit of a generated quality-gate text
MaxRep == 51
\* largest number of vocabulary tokens in a generated Markdown text
MaxTokens == 3
\* largest number of fragments in a generated mixed Markdown text
MaxFragments == 2
\* largest number of repetitions of a unit in the texts compared pairwise
MaxSteps == 11
\* largest number of conversions the history records
MaxConversions == 2
MaxRuns == 3
\* largest number of schedule_update calls
MaxUpdates == 3
\* largest number of records added to the history
MaxAdds == 102
\* largest max_recent a RecentFilesManager is constructed with
MaxListed == 2
\* largest max_size a UICache is constructed with
MaxCached == 2

(***************************************************************************)
(* Characters.                                                             *)
(***************************************************************************)
\* Python's None where a string is expected, and where a dict or tuple is
None == "None"
NoValue == [none |-> TRUE]

Whitespace == {" ", "\t", "\n", "\r", "\f"}
Digits == {"0", "1", "2", "3", "4", "5", "6", "7", "8", "9"}
Lower == {"a", "b", "c", "d", "e", "f", "x"}
Upper == {"A", "B", "C", "D", "E", "F"}
Letters == Lower \cup Upper
HexDigits == Digits \cup {"a", "b", "c", "d", "e", "f"} \cup {"A", "B", "C", "D", "E", "F"}
\* the grave accent (backtick), which the TLA+ lexer does not accept in a string
Backtick == "backtick"
\* the ASCII punctuation of the escapes pattern, main.py line 1365
Punctuation == {"!", "\"", "#", "$", "%", "&", "'", "(", ")", "*", "+", ",",
                "-", ".", "/", ":", ";", "<", "=", ">", "?", "@", "[", "\\",
                "]", "^", "_", Backtick, "{", "|", "}", "~"}
\* every character a modelled text can hold
Chars == Whitespace \cup Digits \cup Letters \cup Punctuation

(***************************************************************************)
(* Python str methods.                                                     *)
(***************************************************************************)
\* s * n
Repeat(s, n) == [i \in 1..(n * Len(s)) |-> s[((i - 1) % Len(s)) + 1]]

\* concatenation of a sequence of texts
RECURSIVE Concat(_)
Concat(ss) == IF ss = <<>> THEN <<>> ELSE Head(ss) \o Concat(Tail(ss))

\* str.strip(): drop leading and trailing whitespace
Strip(s) ==
    IF \A i \in 1..Len(s) : s[i] \in Whitespace THEN <<>>
    ELSE LET lo == CHOOSE i \in 1..Len(s) :
                       s[i] \notin Whitespace /\ \A j \in 1..(i - 1) : s[j] \in Whitespace
             hi == CHOOSE i \in 1..Len(s) :
                       s[i] \notin Whitespace /\ \A j \in (i + 1)..Len(s) : s[j] \in Whitespace
         IN SubSeq(s, lo, hi)

\* str.replace(c, empty): delete every occurrence of the character c
Remove(s, c) == SelectSeq(s, LAMBDA ch : ch # c)

\* the pieces of s[lo..hi] between the characters of seps (by halving, so that
\* the evaluation depth stays logarithmic in the length)
RECURSIVE SplitRange(_, _, _, _)
SplitRange(s, seps, lo, hi) ==
    IF lo > hi THEN << <<>> >>
    ELSE IF lo = hi
         THEN IF s[lo] \in seps THEN << <<>>, <<>> >> ELSE << <<s[lo]>> >>
         ELSE LET mid == (lo + hi) \div 2
                  left == SplitRange(s, seps, lo, mid)
                  right == SplitRange(s, seps, mid + 1, hi)
              IN SubSeq(left, 1, Len(left) - 1)
                   \o << left[Len(left)] \o right[1] >> \o Tail(right)

\* str.split(sep) for a one-character separator: the pieces between separators
Split(s, sep) == SplitRange(s, {sep}, 1, Len(s))

\* str.split(): the maximal runs of non-whitespace characters
SplitWords(s) ==
    SelectSeq(SplitRange(s, Whitespace, 1, Len(s)), LAMBDA piece : piece # <<>>)

\* str.isdigit(): non-empty and every character a digit
IsDigit(s) == Len(s) > 0 /\ \A i \in 1..Len(s) : s[i] \in Digits

\* set(s)
CharSet(s) == {s[i] : i \in 1..Len(s)}

\* all(c == ch for c in s)
AllChars(s, ch) == \A i \in 1..Len(s) : s[i] = ch

\* str.startswith, str.endswith and the substring test (sub in s)
StartsWith(s, pre) == Len(s) >= Len(pre) /\ SubSeq(s, 1, Len(pre)) = pre
EndsWith(s, suf) == Len(s) >= Len(suf) /\ SubSeq(s, Len(s) - Len(suf) + 1, Len(s)) = suf
Contains(s, sub) == \E i \in 1..(Len(s) - Len(sub) + 1) : SubSeq(s, i, i + Len(sub) - 1) = sub

\* [line for line in lines if line.strip()]
NonEmptyLines(lines) == SelectSeq(lines, LAMBDA line : Strip(line) # <<>>)

(***************************************************************************)
(* The quality gate of convert_file_internal, main.py lines 1568-1607.     *)
(***************************************************************************)
\* the length points with the bounds taken inclusive
LengthScoreInclusive(content_length) ==
    IF content_length >= 100 THEN 2 ELSE IF content_length >= 30 THEN 1 ELSE 0

\* the length points with the two awards exchanged
LengthScoreSwapped(content_length) ==
    IF content_length > 100 THEN 1 ELSE IF content_length > 30 THEN 2 ELSE 0

\* length points, lines 1584-1585
LengthScore(content_length) ==
    IF content_length > 100 THEN 2 ELSE IF content_length > 30 THEN 1 ELSE 0

\* line-count points, lines 1588-1589
StructureScore(line_count) ==
    IF line_count > 5 THEN 2 ELSE IF line_count > 2 THEN 1 ELSE 0

\* word-count points, lines 1592-1593
WordScore(word_count) ==
    IF word_count > 20 THEN 2 ELSE IF word_count > 8 THEN 1 ELSE 0

\* quality_score, lines 1575-1593
QualityScore(content) ==
    LET lines == Split(content, "\n")
        non_empty_lines == NonEmptyLines(lines)
        words == SplitWords(content)
        content_length == Len(Strip(content))
    IN LengthScore(content_length) + StructureScore(Len(non_empty_lines))
         + WordScore(Len(words))

\* is_only_numbers without the removal of the newlines
IsOnlyNumbersKeepNewlines(content) == IsDigit(Remove(Strip(content), " "))

\* is_only_numbers, line 1596
IsOnlyNumbers(content) == IsDigit(Remove(Remove(Strip(content), " "), "\n"))

\* is_repetitive, line 1597
IsRepetitive(content) == Cardinality(CharSet(Remove(Remove(content, " "), "\n"))) < 5

\* the decision with the repetition check also applied to the second branch
GateDecisionStrict(quality_score, is_only_numbers, is_repetitive) ==
    [is_valid_content |-> quality_score >= 1 /\ ~is_only_numbers /\ ~is_repetitive,
     quality_score |-> quality_score,
     is_only_numbers |-> is_only_numbers, is_repetitive |-> is_repetitive,
     content_analysis |->
         IF quality_score >= 3 /\ ~is_only_numbers /\ ~is_repetitive THEN "good quality"
         ELSE IF quality_score >= 1 /\ ~is_only_numbers /\ ~is_repetitive
              THEN "acceptable quality"
              ELSE "insufficient quality"]

\* The decision of lines 1600-1607 with the locals it leaves.  content_analysis
\* is the text of line 1602 ("good quality"), 1605 ("acceptable quality") or
\* 1607 ("insufficient quality"); the score the message ends with is the field
\* quality_score.
GateDecision(quality_score, is_only_numbers, is_repetitive) ==
    LET locals == [quality_score |-> quality_score,
                   is_only_numbers |-> is_only_numbers, is_repetitive |-> is_repetitive]
    IN IF quality_score >= 3 /\ ~is_only_numbers /\ ~is_repetitive
       THEN locals @@ [is_valid_content |-> TRUE, content_analysis |-> "good quality"]
       ELSE IF quality_score >= 1 /\ ~is_only_numbers
       THEN locals @@ [is_valid_content |-> TRUE, content_analysis |-> "acceptable quality"]
       ELSE locals @@ [is_valid_content |-> FALSE,
                       content_analysis |-> "insufficient quality"]

\* the test of line 1573 without the strip
HasContentNoStrip(content) == content # <<>>

\* the test of line 1573: content and len(content.strip()) > 0
HasContent(content) == content # <<>> /\ Len(Strip(content)) > 0

\* The quality gate, lines 1568-1607: the locals when line 1609 is reached.
\* When the branch of line 1573 is not entered, is_valid_content and
\* content_analysis keep the values of lines 1570-1571; the empty analysis is
\* written "empty content" and no score exists (0 here).
QualityGate(content) ==
    IF HasContent(content)
    THEN GateDecision(QualityScore(content), IsOnlyNumbers(content), IsRepetitive(content))
    ELSE [is_valid_content |-> FALSE, quality_score |-> 0,
          content_analysis |-> "empty content"]

(***************************************************************************)
(* Regular expressions (module re).  A pattern is a sequence of elements,  *)
(* each a character class with a repetition: "1" (exactly one), "+" (one   *)
(* or more) or "*" (zero or more; the lazy form has the same matches).     *)
(***************************************************************************)
One(cls) == [cls |-> cls, rep |-> "1"]
Plus(cls) == [cls |-> cls, rep |-> "+"]
Star(cls) == [cls |-> cls, rep |-> "*"]
Lit(c) == One({c})
\* a negated class [^...]
Not(cls) == Chars \ cls

\* first position at or after i whose character is outside cls
RunEnd(s, i, cls) ==
    CHOOSE j \in i..(Len(s) + 1) :
        /\ j = Len(s) + 1 \/ s[j] \notin cls
        /\ \A m \in i..(j - 1) : s[m] \in cls

\* the elements k.. of pattern p match a prefix of s[i..]
RECURSIVE MatchAt(_, _, _, _)
MatchAt(s, i, p, k) ==
    IF k > Len(p) THEN TRUE
    ELSE LET e == p[k]
         IN IF e.rep = "1"
            THEN i <= Len(s) /\ s[i] \in e.cls /\ MatchAt(s, i + 1, p, k + 1)
            ELSE \E j \in (IF e.rep = "+" THEN i + 1 ELSE i)..RunEnd(s, i, e.cls) :
                     MatchAt(s, j, p, k + 1)

\* re.match(p, s): the pattern matches at the start of s
ReMatch(p, s) == MatchAt(s, 1, p, 1)

\* re.search(p, s): the pattern matches somewhere in s
ReSearch(p, s) == \E i \in 1..(Len(s) + 1) : MatchAt(s, i, p, 1)

(***************************************************************************)
(* validate_markdown_content, main.py lines 1210-1423.                     *)
(***************************************************************************)
\* hash_count, lines 1242-1247: the number of leading # characters
HashCount(stripped) == RunEnd(stripped, 1, {"#"}) - 1

\* 1. ATX headers, lines 1238-1250
AtxHeaderLine(line) ==
    LET stripped == Strip(line)
    IN /\ StartsWith(stripped, <<"#">>)
       /\ (Len(stripped) = 1 \/ stripped[2] \in {" ", "\t"})
       /\ 1 <= HashCount(stripped) /\ HashCount(stripped) <= 6

HasAtxHeader(lines) == \E i \in 1..Len(lines) : AtxHeaderLine(lines[i])

\* the Setext check without the minimum length of the underline
HasSetextHeaderAnyLength(lines) ==
    \E i \in 1..(Len(lines) - 1) :
        LET current_line == Strip(lines[i])
            next_line == Strip(lines[i + 1])
        IN /\ current_line # <<>> /\ next_line # <<>>
           /\ (AllChars(next_line, "=") \/ AllChars(next_line, "-"))

\* 2. Setext headers, lines 1253-1260
HasSetextHeader(lines) ==
    \E i \in 1..(Len(lines) - 1) :
        LET current_line == Strip(lines[i])
            next_line == Strip(lines[i + 1])
        IN /\ current_line # <<>> /\ next_line # <<>>
           /\ (AllChars(next_line, "=") \/ AllChars(next_line, "-"))
           /\ Len(next_line) >= 3

\* 3. emphasis_patterns, lines 1264-1269
emphasis_patterns ==
    << <<Lit("*"), Lit("*"), Plus(Not({"*"})), Lit("*"), Lit("*")>>,
       <<Lit("_"), Lit("_"), Plus(Not({"_"})), Lit("_"), Lit("_")>>,
       <<Lit("*"), Plus(Not({"*"})), Lit("*")>>,
       <<Lit("_"), Plus(Not({"_"})), Lit("_")>> >>

\* for pattern in patterns: if re.search(pattern, content): ...; break
AnySearch(patterns, content) ==
    \E n \in 1..Len(patterns) : ReSearch(patterns[n], content)

\* 4. lists, lines 1276-1285
unordered_item == <<One({"-", "*", "+"}), One(Whitespace)>>
ordered_item == <<Plus(Digits), Lit("."), One(Whitespace)>>

HasList(lines) ==
    \E i \in 1..Len(lines) :
        LET stripped == Strip(lines[i])
        IN ReMatch(unordered_item, stripped) \/ ReMatch(ordered_item, stripped)

\* 5. code, lines 1288-1294
inline_code == <<Lit(Backtick), Plus(Not({Backtick})), Lit(Backtick)>>

HasCode(content) ==
    IF Contains(content, <<Backtick>>)
    THEN IF ReSearch(inline_code, content) THEN TRUE
         ELSE \/ Contains(content, <<Backtick, Backtick, Backtick>>)
              \/ Contains(content, <<"~", "~", "~">>)
    ELSE FALSE

\* 6. blockquotes, lines 1297-1300
HasBlockquote(lines) ==
    \E i \in 1..Len(lines) : StartsWith(Strip(lines[i]), <<">">>)

\* 7. link_patterns, lines 1303-1306
link_patterns ==
    << <<Lit("["), Plus(Not({"]"})), Lit("]"), Lit("("), Plus(Not({")"})), Lit(")")>>,
       <<Lit("["), Plus(Not({"]"})), Lit("]"), Lit("["), Star(Not({"]"})), Lit("]")>> >>

\* the image pattern without its leading exclamation mark
image_pattern_without_mark ==
    <<Lit("["), Star(Not({"]"})), Lit("]"), Lit("("), Plus(Not({")"})), Lit(")")>>

\* 8. the image pattern, line 1313
image_pattern ==
    <<Lit("!"), Lit("["), Star(Not({"]"})), Lit("]"), Lit("("), Plus(Not({")"})), Lit(")")>>

\* the table check satisfied by a single table line
HasTableOneLine(lines) ==
    LET table_lines == SelectSeq(lines, LAMBDA line :
                           Contains(line, <<"|">>) /\ StartsWith(Strip(line), <<"|">>))
    IN /\ Len(table_lines) >= 1
       /\ \E i \in 1..Len(table_lines) :
              \/ Contains(table_lines[i], <<"-", "-", "-">>)
              \/ Contains(table_lines[i], <<"=", "=", "=">>)

\* 9. tables, lines 1317-1323
HasTable(lines) ==
    LET table_lines == SelectSeq(lines, LAMBDA line :
                           Contains(line, <<"|">>) /\ StartsWith(Strip(line), <<"|">>))
    IN /\ Len(table_lines) >= 2
       /\ \E i \in 1..Len(table_lines) :
              \/ Contains(table_lines[i], <<"-", "-", "-">>)
              \/ Contains(table_lines[i], <<"=", "=", "=">>)

\* 10. horizontal rules, lines 1326-1333
HasHorizontalRule(lines) ==
    \E i \in 1..Len(lines) :
        LET stripped == Strip(lines[i])
        IN /\ Len(stripped) >= 3
           /\ (AllChars(stripped, "-") \/ AllChars(stripped, "*") \/ AllChars(stripped, "_"))

\* 11. hard line breaks, lines 1336-1339
HasLineBreak(lines) ==
    \E i \in 1..Len(lines) :
        EndsWith(lines[i], <<" ", " ">>) \/ EndsWith(lines[i], <<"\\">>)

\* 12. html_patterns, lines 1342-1347, searched with re.DOTALL
html_patterns ==
    << <<Lit("<"), One(Letters), Star(Not({">"})), Lit(">")>>,
       <<Lit("<"), Lit("/"), One(Letters), Star(Not({">"})), Lit(">")>>,
       <<Lit("<"), Lit("!"), Lit("-"), Lit("-"), Star(Chars), Lit("-"), Lit("-"), Lit(">")>>,
       <<Lit("<"), Lit("!"), One(Upper), Star(Chars), Lit(">")>> >>

\* 13. entity_patterns, lines 1354-1358
entity_patterns ==
    << <<Lit("&"), One(Letters), Star(Letters \cup Digits), Lit(";")>>,
       <<Lit("&"), Lit("#"), Plus(Digits), Lit(";")>>,
       <<Lit("&"), Lit("#"), Lit("x"), Plus(HexDigits), Lit(";")>> >>

\* 14. the backslash escape pattern, line 1365
escape_pattern == <<Lit("\\"), One(Punctuation)>>

\* the keys of markdown_features in their order, lines 1219-1233
FeatureKeys ==
    <<"headers", "emphasis", "lists", "code", "blockquotes", "links", "images",
      "tables", "horizontal_rules", "line_breaks", "html_blocks", "entity_refs",
      "escapes">>

\* markdown_features after the fourteen scans, lines 1219-1366: the counter of
\* each category (headers can reach 2: one for ATX, one for Setext)
MarkdownFeatures(content) ==
    LET lines == Split(content, "\n")
        B(x) == IF x THEN 1 ELSE 0
    IN [headers |-> B(HasAtxHeader(lines)) + B(HasSetextHeader(lines)),
        emphasis |-> B(AnySearch(emphasis_patterns, content)),
        lists |-> B(HasList(lines)),
        code |-> B(HasCode(content)),
        blockquotes |-> B(HasBlockquote(lines)),
        links |-> B(AnySearch(link_patterns, content)),
        images |-> B(ReSearch(image_pattern, content)),
        tables |-> B(HasTable(lines)),
        horizontal_rules |-> B(HasHorizontalRule(lines)),
        line_breaks |-> B(HasLineBreak(lines)),
        html_blocks |-> B(AnySearch(html_patterns, content)),
        entity_refs |-> B(AnySearch(entity_patterns, content)),
        escapes |-> B(ReSearch(escape_pattern, content))]

\* the detected count as the sum of the counters
DetectedFeaturesSum(markdown_features) ==
    LET RECURSIVE Sum(_)
        Sum(n) == IF n = 0 THEN 0 ELSE markdown_features[FeatureKeys[n]] + Sum(n - 1)
    IN Sum(Len(FeatureKeys))

\* detected_features, line 1369
DetectedFeatures(markdown_features) ==
    Cardinality({n \in 1..Len(FeatureKeys) : markdown_features[FeatureKeys[n]] > 0})

\* markdown_percentage as the format {:.1f} prints it, lines 1370 and 1423:
\* detected / total_checks * 100 rounded to one decimal, in tenths of a percent
MarkdownPercentage(detected_features) ==
    LET total_checks == Len(FeatureKeys)
    IN (2 * 1000 * detected_features + total_checks) \div (2 * total_checks)

\* the matched names collected last category first
FeatureDetailsReversed(markdown_features) ==
    LET Name(n) == FeatureKeys[n]
        RECURSIVE From(_)
        From(n) == IF n > Len(FeatureKeys) THEN <<>>
                   ELSE From(n + 1)
                            \o (IF markdown_features[Name(n)] > 0 THEN <<Name(n)>> ELSE <<>>)
    IN From(1)

\* feature_details, lines 1373-1399: the names of the matched categories in
\* checklist order
FeatureDetails(markdown_features) ==
    LET Name(n) == FeatureKeys[n]
        RECURSIVE From(_)
        From(n) == IF n > Len(FeatureKeys) THEN <<>>
                   ELSE (IF markdown_features[Name(n)] > 0 THEN <<Name(n)>> ELSE <<>>)
                            \o From(n + 1)
    IN From(1)

\* the labelling with single-line text without features held invalid
LabelStrict(markdown_features, non_empty_lines) ==
    LET detected_features == DetectedFeatures(markdown_features)
    IN IF detected_features >= 1
       THEN [is_valid |-> TRUE, status |-> "standard-markdown",
             details |-> FeatureDetails(markdown_features),
             percentage |-> MarkdownPercentage(detected_features)]
       ELSE IF Len(non_empty_lines) > 1
       THEN [is_valid |-> TRUE, status |-> "structured-text",
             details |-> <<"multi-line text">>,
             percentage |-> MarkdownPercentage(detected_features)]
       ELSE [is_valid |-> FALSE, status |-> "plain-text",
             details |-> <<"basic text">>,
             percentage |-> MarkdownPercentage(detected_features)]

\* the labelling with the line count tested before the features
LabelLinesFirst(markdown_features, non_empty_lines) ==
    LET detected_features == DetectedFeatures(markdown_features)
    IN IF Len(non_empty_lines) > 1
       THEN [is_valid |-> TRUE, status |-> "structured-text",
             details |-> <<"multi-line text">>,
             percentage |-> MarkdownPercentage(detected_features)]
       ELSE IF detected_features >= 1
       THEN [is_valid |-> TRUE, status |-> "standard-markdown",
             details |-> FeatureDetails(markdown_features),
             percentage |-> MarkdownPercentage(detected_features)]
       ELSE [is_valid |-> TRUE, status |-> "plain-text",
             details |-> <<"basic text">>,
             percentage |-> MarkdownPercentage(detected_features)]

\* The labelling of lines 1368-1423: is_valid and the message, kept as its
\* three formatted parts (status, the joined feature list, the percentage).
\* Statuses: "standard-markdown" is line 1405, "structured-text" line 1409,
\* "plain-text" line 1414.
Label(markdown_features, non_empty_lines) ==
    LET detected_features == DetectedFeatures(markdown_features)
    IN IF detected_features >= 1
       THEN [is_valid |-> TRUE, status |-> "standard-markdown",
             details |-> FeatureDetails(markdown_features),
             percentage |-> MarkdownPercentage(detected_features)]
       ELSE IF Len(non_empty_lines) > 1
       THEN [is_valid |-> TRUE, status |-> "structured-text",
             details |-> <<"multi-line text">>,
             percentage |-> MarkdownPercentage(detected_features)]
       ELSE [is_valid |-> TRUE, status |-> "plain-text",
             details |-> <<"basic text">>,
             percentage |-> MarkdownPercentage(detected_features)]

\* the classifier holding only standard Markdown valid
ValidateMarkdownContentStandardOnly(content) ==
    IF content = <<>> \/ Len(Strip(content)) = 0
    THEN [is_valid |-> FALSE, status |-> "empty content", details |-> <<>>,
          percentage |-> 0]
    ELSE LET v == Label(MarkdownFeatures(content), NonEmptyLines(Split(content, "\n")))
         IN [v EXCEPT !.is_valid = (v.status = "standard-markdown")]

\* validate_markdown_content, lines 1210-1423: the returned pair.  The message
\* of line 1213 is written "empty content".
ValidateMarkdownContent(content) ==
    IF content = <<>> \/ Len(Strip(content)) = 0
    THEN [is_valid |-> FALSE, status |-> "empty content", details |-> <<>>,
          percentage |-> 0]
    ELSE Label(MarkdownFeatures(content), NonEmptyLines(Split(content, "\n")))

\* The partial operations of validate_markdown_content: an index out of range
\* raises IndexError, a division by zero raises ZeroDivisionError.  The quality
\* gate (lines 1570-1607) has none: strip, split, replace, isdigit, len and set
\* are defined on every string.

\* line 1240 with the index read on every line that starts with #
AtxIndexErrorUnguarded(stripped) ==
    StartsWith(stripped, <<"#">>) /\ Len(stripped) < 2

\* line 1240: stripped[1] is read when the line starts with # and its length
\* is not 1, and raises when the line has no second character
AtxIndexError(stripped) ==
    StartsWith(stripped, <<"#">>) /\ Len(stripped) # 1 /\ Len(stripped) < 2

\* lines 1238-1250: the loop reaches a raising line when no line before it
\* ended the loop
AtxLoopRaises(lines) ==
    \E n \in 1..Len(lines) :
        /\ AtxIndexError(Strip(lines[n]))
        /\ \A m \in 1..(n - 1) : ~AtxHeaderLine(lines[m])

\* lines 1253-1255: lines[i + 1] for i in range(len(lines) - 1)
SetextLoopRaises(lines) ==
    \E i \in 0..(Len(lines) - 2) : i + 1 > Len(lines) - 1

\* line 1370: the division by total_checks
PercentageRaises == Len(FeatureKeys) = 0

\* validate_markdown_content raises instead of returning
ValidateRaises(content) ==
    /\ ~(content = <<>> \/ Len(Strip(content)) = 0)
    /\ LET lines == Split(content, "\n")
       IN AtxLoopRaises(lines) \/ SetextLoopRaises(lines) \/ PercentageRaises

\* the outcome of a call of validate_markdown_content: the returned pair, or
\* the exception it raised
ValidateOutcome(content) ==
    IF ValidateRaises(content) THEN [exception |-> "IndexError"]
    ELSE ValidateMarkdownContent(content)

(***************************************************************************)
(* The application: BeautifulMarkItDownApp with its ConversionHistory and  *)
(* RecentFilesManager.  Timestamps, file sizes, the API status and the     *)
(* widgets are left out; they do not feed the state modelled here.         *)
(***************************************************************************)
Paths == {"f1", "f2"}

VARIABLES
    disk,                   \* environment: the paths that exist (os.path.exists)
    text_content,           \* environment: the text converter.convert extracts from each path
    converter,              \* self.converter: None or the MarkItDown instance
    selected_files,         \* self.selected_files
    conversion_results,     \* self.conversion_results; NoValue marks an absent key
    current_selected_file,  \* self.current_selected_file
    history,                \* history_manager.history
    recent_files,           \* recent_files_manager.recent_files
    gate,                   \* per path, the content and the locals of the last quality gate run on it
    validate_calls,         \* the contents passed to validate_markdown_content at line 1611
    verdict,                \* the content and the return value of the last validate_markdown_content call
    status_bar,             \* the last update_status: its icon and the file it names
    snackbar,               \* the last snackbar shown
    pc,                     \* per path, the position of its conversion running step by step
    frame,                  \* per path, the locals of that conversion
    calls,                  \* the gate and classifier calls of those conversions, in order
    batch,                  \* the start_conversion handler running step by step: its position and locals
    pending_updates,        \* BatchUpdater._pending_updates: the update functions, by number
    update_timer,           \* BatchUpdater._update_timer: NoValue for None, or [timer |-> t]
    lock,                   \* BatchUpdater._lock: NoValue when free, or the thread that holds it
    timers,                 \* the threading.Timer objects created so far: the state of each
    callers,                \* per calling thread, its position in schedule_update or immediate_update
    executed,               \* the batches run so far: the function calls of each and its page.update
    cache,                  \* UICache._cache: per key [component |-> w], or NoValue for an absent key
    access_order,           \* UICache._access_order
    max_size,               \* UICache.max_size
    now,                    \* environment: the clock read by datetime.now()
    max_recent,             \* RecentFilesManager.max_recent
    last_call               \* the last call of a manager or of the cache: its arguments, the state before it, its outcome

\* what the user sees
shown == <<status_bar, snackbar>>
\* the conversions running step by step
stepwise == <<pc, frame, calls>>

\* the BatchUpdater
updater == <<pending_updates, update_timer, lock, timers, callers, executed>>
\* the UICache
ui_cache == <<cache, access_order, max_size>>
\* what the handlers of the application modelled as one step leave alone
components == <<batch, updater, ui_cache, now, max_recent, last_call>>
\* the application
app == <<disk, text_content, converter, selected_files, conversion_results,
         current_selected_file, history, recent_files, gate, validate_calls, verdict,
         status_bar, snackbar, pc, frame, calls>>

vars == <<app, components>>

\* history_manager.py line 57: the number of records kept
HistoryLimit == 100
\* recent_files.py line 17: the default of max_recent
MaxRecent == 10

\* the elements of a list
Named(details) == {details[i] : i \in 1..Len(details)}

\* x in list
InSeq(x, list) == \E i \in 1..Len(list) : list[i] = x

\* add_conversion cutting the list from the wrong end
AddConversionKeepingOldest(h, files, success, error_msg, char_count) ==
    LET record == [id |-> Len(h) + 1, files |-> files, file_count |-> Len(files),
                   output_file |-> "", success |-> success, error_msg |-> error_msg,
                   char_count |-> char_count]
        inserted == <<record>> \o h
    IN IF Len(inserted) > HistoryLimit
       THEN SubSeq(inserted, Len(inserted) - HistoryLimit + 1, Len(inserted))
       ELSE inserted

\* ConversionHistory.add_conversion, history_manager.py lines 39-60
AddConversion(h, files, success, error_msg, char_count) ==
    LET record == [id |-> Len(h) + 1, files |-> files, file_count |-> Len(files),
                   output_file |-> "", success |-> success, error_msg |-> error_msg,
                   char_count |-> char_count]
        inserted == <<record>> \o h
    IN IF Len(inserted) > HistoryLimit THEN SubSeq(inserted, 1, HistoryLimit)
       ELSE inserted

\* add_recent_file without the filter of line 55
AddRecentFileKeepingDuplicates(r, exists, file_path, success) ==
    IF file_path \notin exists THEN r
    ELSE LET file_info == [path |-> file_path, success |-> success]
             inserted == <<file_info>> \o r
         IN IF Len(inserted) > max_recent THEN SubSeq(inserted, 1, max_recent)
            ELSE inserted

\* RecentFilesManager.add_recent_file, recent_files.py lines 40-64
AddRecentFile(r, exists, file_path, success) ==
    IF file_path \notin exists THEN r
    ELSE LET file_info == [path |-> file_path, success |-> success]
             others == SelectSeq(r, LAMBDA f : f.path # file_path)
             inserted == <<file_info>> \o others
         IN IF Len(inserted) > max_recent THEN SubSeq(inserted, 1, max_recent)
            ELSE inserted

\* convert_file_internal, main.py lines 1542-1687, run on the history h and
\* the recent files r.  raised tells whether converter.convert raises; a
\* missing converter raises at line 1564 and an exception of the classifier is
\* caught at line 1664 like any other.  The value holds the returned dict and
\* what the call leaves in the history, the recent files and the gate's
\* locals, the content it validated (if any) and the outcome of that call.
ConvertFileInternalIn(h, r, file_path, raised) ==
    IF converter = None \/ raised
    THEN LET error_msg == IF converter = None THEN "converter not initialized"
                          ELSE "convert raised"
         IN [result |-> [success |-> FALSE, error |-> error_msg,
                         file_path |-> file_path, is_markdown |-> FALSE,
                         validation_msg |-> "conversion exception"],
             history |-> AddConversion(h, <<file_path>>, FALSE, error_msg, 0),
             recent_files |-> AddRecentFile(r, disk, file_path, FALSE),
             gate |-> NoValue,
             validated |-> {},
             verdict |-> NoValue]
    ELSE LET content == text_content[file_path]
             g == QualityGate(content)
         IN IF g.is_valid_content /\ ValidateRaises(content)
            THEN LET error_msg == "validate raised"
                 IN [result |-> [success |-> FALSE, error |-> error_msg,
                                 file_path |-> file_path, is_markdown |-> FALSE,
                                 validation_msg |-> "conversion exception"],
                     history |-> AddConversion(h, <<file_path>>, FALSE, error_msg, 0),
                     recent_files |-> AddRecentFile(r, disk, file_path, FALSE),
                     gate |-> [content |-> content] @@ g,
                     validated |-> {content},
                     verdict |-> [content |-> content] @@ ValidateOutcome(content)]
            ELSE IF g.is_valid_content
            THEN LET v == ValidateMarkdownContent(content)
                 IN [result |-> [success |-> TRUE, content |-> content,
                                 char_count |-> Len(content), file_path |-> file_path,
                                 is_markdown |-> v.is_valid, validation_msg |-> v],
                     history |-> AddConversion(h, <<file_path>>, TRUE, "", Len(content)),
                     recent_files |-> AddRecentFile(r, disk, file_path, TRUE),
                     gate |-> [content |-> content] @@ g,
                     validated |-> {content},
                     verdict |-> [content |-> content] @@ v]
            ELSE LET error_msg == "no content extracted"
                 IN [result |-> [success |-> FALSE, error |-> error_msg,
                                 file_path |-> file_path, is_markdown |-> FALSE,
                                 validation_msg |-> "conversion failed"],
                     history |-> AddConversion(h, <<file_path>>, FALSE, error_msg, 0),
                     recent_files |-> AddRecentFile(r, disk, file_path, FALSE),
                     gate |-> [content |-> content] @@ g,
                     validated |-> {},
                     verdict |-> NoValue]

\* convert_file_internal with an except branch that records nothing
ConvertFileInternalUnrecorded(file_path, raised) ==
    LET c == ConvertFileInternalIn(history, recent_files, file_path, raised)
    IN IF c.result.success THEN c ELSE [c EXCEPT !.history = history]

\* convert_file_internal on the application's history and recent files
ConvertFileInternal(file_path, raised) ==
    ConvertFileInternalIn(history, recent_files, file_path, raised)

\* the message mentions the word: the test word in validation_info of lines
\* 1708 and 1711 on the message of line 1423
Mentions(validation_info, word) ==
    validation_info.status = word \/ InSeq(word, validation_info.details)

\* the status select_file_to_view shows for a file, main.py lines 1699-1735:
\* "check" is set at line 1709, "document" at 1712, "memo" at 1715, "cross"
\* at 1718, "failed" at 1731, "not converted" at 1735.  Line 1708 looks for a
\* word that the messages of lines 1405-1415 do not hold.
SelectStatus(results, file_path) ==
    LET result == results[file_path]
    IN IF result = NoValue THEN [icon |-> "not converted", file |-> file_path]
       ELSE IF ~result.success THEN [icon |-> "failed", file |-> file_path]
       ELSE IF ~result.is_markdown THEN [icon |-> "cross", file |-> file_path]
       ELSE IF Mentions(result.validation_msg, "valid-markdown")
       THEN [icon |-> "check", file |-> file_path]
       ELSE IF Mentions(result.validation_msg, "structured-text")
       THEN [icon |-> "document", file |-> file_path]
       ELSE [icon |-> "memo", file |-> file_path]

\* add_file_to_list, main.py lines 985-1004, for a file picked from the disk
\* and within the size limit
AddFileToList(file_path) ==
    /\ file_path \in disk
    /\ ~InSeq(file_path, selected_files)
    /\ selected_files' = Append(selected_files, file_path)
    /\ UNCHANGED <<components, disk, text_content, converter, conversion_results,
                   current_selected_file, history, recent_files, gate,
                   validate_calls, verdict, shown, stepwise>>

\* select_file_to_view, main.py lines 1689-1737, for a file of the list
SelectFileToView(file_path) ==
    /\ InSeq(file_path, selected_files)
    /\ current_selected_file' = file_path
    /\ status_bar' = SelectStatus(conversion_results, file_path)
    /\ UNCHANGED <<components, disk, text_content, converter, selected_files, conversion_results,
                   history, recent_files, gate, validate_calls, verdict, snackbar,
                   stepwise>>

\* convert_single_file, main.py lines 1425-1444: convert, store the result,
\* select the file (select_file_to_view, line 1437), show the snackbar
ConvertSingleFile(file_path) ==
    /\ InSeq(file_path, selected_files)
    /\ Len(history) < MaxConversions
    /\ \E raised \in BOOLEAN :
           \E c \in {ConvertFileInternal(file_path, raised)} :
              /\ conversion_results' = [conversion_results EXCEPT ![file_path] = c.result]
              /\ history' = c.history
              /\ recent_files' = c.recent_files
              /\ gate' = [gate EXCEPT ![file_path] = c.gate]
              /\ validate_calls' = validate_calls \cup c.validated
              /\ verdict' = IF c.validated = {} THEN verdict ELSE c.verdict
              /\ snackbar' = [kind |-> IF c.result.success THEN "converted"
                                       ELSE "conversion failed"]
    /\ current_selected_file' = file_path
    /\ status_bar' = SelectStatus(conversion_results', file_path)
    /\ UNCHANGED <<components, disk, text_content, converter, selected_files, stepwise>>

\* the loop of start_conversion, lines 1178-1186, from the i-th selected file
\* on: each file is converted on what the files before it left
RECURSIVE BatchFrom(_, _, _)
BatchFrom(i, raising, acc) ==
    IF i > Len(selected_files) THEN acc
    ELSE LET file_path == selected_files[i]
             c == ConvertFileInternalIn(acc.history, acc.recent_files, file_path,
                                        file_path \in raising)
         IN BatchFrom(i + 1, raising,
                [results |-> [acc.results EXCEPT ![file_path] = c.result],
                 history |-> c.history,
                 recent_files |-> c.recent_files,
                 gate |-> [acc.gate EXCEPT ![file_path] = c.gate],
                 validated |-> acc.validated \cup c.validated,
                 verdict |-> IF c.validated = {} THEN acc.verdict ELSE c.verdict])

\* the first selected file converted with success, lines 1193-1196
FirstSuccessful(results) ==
    LET ok == {i \in 1..Len(selected_files) :
                  /\ results[selected_files[i]] # NoValue
                  /\ results[selected_files[i]].success}
    IN IF ok = {} THEN None
       ELSE selected_files[CHOOSE i \in ok : \A j \in ok : i <= j]

\* the counts of the summary, lines 1199-1208
Summary(results) ==
    LET Success(f) == results[f] # NoValue /\ results[f].success
        successful == SelectSeq(selected_files, Success)
        failed == SelectSeq(selected_files, LAMBDA f : ~Success(f))
        markdown_count == SelectSeq(successful, LAMBDA f : results[f].is_markdown)
    IN [kind |-> "summary", successful |-> Len(successful),
        markdown |-> Len(markdown_count), failed |-> Len(failed)]

\* start_conversion, main.py lines 1165-1208, run through as one handler
StartConversion ==
    IF selected_files = <<>>
    THEN /\ snackbar' = [kind |-> "select files first"]
         /\ UNCHANGED <<components, disk, text_content, converter, selected_files,
                        conversion_results, current_selected_file, history,
                        recent_files, gate, validate_calls, verdict, status_bar,
                        stepwise>>
    ELSE /\ Len(history) < MaxConversions
         /\ \E raising \in SUBSET Named(selected_files) :
              \E acc \in {BatchFrom(1, raising,
                             [results |-> conversion_results, history |-> history,
                              recent_files |-> recent_files, gate |-> gate,
                              validated |-> {}, verdict |-> verdict])} :
                 /\ conversion_results' = acc.results
                 /\ history' = acc.history
                 /\ recent_files' = acc.recent_files
                 /\ gate' = acc.gate
                 /\ validate_calls' = validate_calls \cup acc.validated
                 /\ verdict' = acc.verdict
                 /\ snackbar' = Summary(acc.results)
                 /\ LET first == FirstSuccessful(acc.results)
                    IN IF current_selected_file = None /\ first # None
                       THEN /\ current_selected_file' = first
                            /\ status_bar' = SelectStatus(acc.results, first)
                       ELSE /\ current_selected_file' = current_selected_file
                            /\ status_bar' = [icon |-> "batch done", file |-> None]
         /\ UNCHANGED <<components, disk, text_content, converter, selected_files, stepwise>>

\* validate_markdown_content applied to the text of a file, main.py lines 1210-1423
ValidateText(file_path) ==
    /\ file_path \in disk
    /\ verdict' = [content |-> text_content[file_path]]
                      @@ ValidateOutcome(text_content[file_path])
    /\ UNCHANGED <<components, disk, text_content, converter, selected_files, conversion_results,
                   current_selected_file, history, recent_files, gate, validate_calls,
                   shown, stepwise>>

\* the quality gate applied to the text of a file, main.py lines 1568-1607
GateText(file_path) ==
    /\ file_path \in disk
    /\ gate[file_path] = NoValue
    /\ gate' = [gate EXCEPT ![file_path] =
                    [content |-> text_content[file_path]]
                        @@ QualityGate(text_content[file_path])]
    /\ UNCHANGED <<components, disk, text_content, converter, selected_files, conversion_results,
                   current_selected_file, history, recent_files, validate_calls, verdict,
                   shown, stepwise>>

(***************************************************************************)
(* convert_single_file step by step.  The handlers of the convert buttons  *)
(* (line 1062) run in threads of their own, so the conversions of two      *)
(* files can interleave.  A conversion reads its text, runs the quality    *)
(* gate, runs the classifier and records its outcome; the locals of        *)
(* convert_file_internal live in the frame of its thread.                  *)
(***************************************************************************)
\* the paths with a conversion in flight
Running == {f \in Paths : pc[f] # "idle"}

\* lines 1427-1433 and 1544-1569: the handler starts and converter.convert
\* returns the text or raises
BeginConversion(file_path) ==
    /\ InSeq(file_path, selected_files)
    /\ pc[file_path] = "idle"
    /\ Len(history) + Cardinality(Running) < MaxRuns
    /\ \E raised \in BOOLEAN :
          IF converter = None \/ raised
          THEN /\ frame' = [frame EXCEPT ![file_path] =
                               [error |-> IF converter = None
                                          THEN "converter not initialized"
                                          ELSE "convert raised"]]
               /\ pc' = [pc EXCEPT ![file_path] = "record"]
          ELSE /\ frame' = [frame EXCEPT ![file_path] =
                               [content |-> text_content[file_path]]]
               /\ pc' = [pc EXCEPT ![file_path] = "gate"]
    /\ UNCHANGED <<components, disk, text_content, converter, selected_files, conversion_results,
                   current_selected_file, history, recent_files, gate, validate_calls,
                   verdict, shown, calls>>

\* the quality gate run on the text of the file selected in the list
GateStepOnSelected(file_path) ==
    /\ pc[file_path] = "gate"
    /\ LET content == IF current_selected_file = None THEN frame[file_path].content
                      ELSE text_content[current_selected_file]
           g == QualityGate(content)
       IN /\ frame' = [frame EXCEPT ![file_path] = [gate |-> g] @@ frame[file_path]]
          /\ gate' = [gate EXCEPT ![file_path] = [content |-> content] @@ g]
          /\ calls' = Append(calls, [fn |-> "gate", content |-> frame[file_path].content,
                                     result |-> g])
          /\ pc' = [pc EXCEPT ![file_path] =
                       IF g.is_valid_content THEN "validate" ELSE "record"]
    /\ UNCHANGED <<components, disk, text_content, converter, selected_files, conversion_results,
                   current_selected_file, history, recent_files, validate_calls,
                   verdict, shown>>

\* lines 1568-1609: the quality gate on the locals of the conversion
GateStep(file_path) ==
    /\ pc[file_path] = "gate"
    /\ LET content == frame[file_path].content
           g == QualityGate(content)
       IN /\ frame' = [frame EXCEPT ![file_path] = [gate |-> g] @@ frame[file_path]]
          /\ gate' = [gate EXCEPT ![file_path] = [content |-> content] @@ g]
          /\ calls' = Append(calls, [fn |-> "gate", content |-> content, result |-> g])
          /\ pc' = [pc EXCEPT ![file_path] =
                       IF g.is_valid_content THEN "validate" ELSE "record"]
    /\ UNCHANGED <<components, disk, text_content, converter, selected_files, conversion_results,
                   current_selected_file, history, recent_files, validate_calls,
                   verdict, shown>>

\* the counters of the earlier classifier calls added to those of the text
AccumulatedFeatures(content) ==
    LET earlier == {calls[i].content : i \in {n \in 1..Len(calls) : calls[n].fn = "validate"}}
        own == MarkdownFeatures(content)
    IN [key \in DOMAIN own |->
           IF \E c \in earlier : MarkdownFeatures(c)[key] > 0 THEN own[key] + 1
           ELSE own[key]]

\* the classifier with counters that outlive the call
ClassifyStepAccumulating(file_path) ==
    /\ pc[file_path] = "validate"
    /\ LET content == frame[file_path].content
           outcome == Label(AccumulatedFeatures(content),
                            NonEmptyLines(Split(content, "\n")))
       IN /\ frame' = [frame EXCEPT ![file_path] =
                          [verdict |-> outcome] @@ frame[file_path]]
          /\ validate_calls' = validate_calls \cup {content}
          /\ verdict' = [content |-> content] @@ outcome
          /\ calls' = Append(calls, [fn |-> "validate", content |-> content,
                                     result |-> outcome])
          /\ pc' = [pc EXCEPT ![file_path] = "record"]
    /\ UNCHANGED <<components, disk, text_content, converter, selected_files, conversion_results,
                   current_selected_file, history, recent_files, gate, shown>>

\* line 1611: the classifier on the text of the conversion
ClassifyStep(file_path) ==
    /\ pc[file_path] = "validate"
    /\ LET content == frame[file_path].content
           outcome == ValidateOutcome(content)
       IN /\ frame' = [frame EXCEPT ![file_path] =
                          [verdict |-> outcome] @@ frame[file_path]]
          /\ validate_calls' = validate_calls \cup {content}
          /\ verdict' = [content |-> content] @@ outcome
          /\ calls' = Append(calls, [fn |-> "validate", content |-> content,
                                     result |-> outcome])
          /\ pc' = [pc EXCEPT ![file_path] = "record"]
    /\ UNCHANGED <<components, disk, text_content, converter, selected_files, conversion_results,
                   current_selected_file, history, recent_files, gate, shown>>

\* the dict convert_file_internal returns from the locals of a frame: lines
\* 1631-1639 after the classifier returned, 1656-1662 after the gate
\* rejected, 1681-1687 after an exception
ResultOf(file_path, locals) ==
    IF "error" \in DOMAIN locals \/
       ("verdict" \in DOMAIN locals /\ "exception" \in DOMAIN locals.verdict)
    THEN [success |-> FALSE,
          error |-> IF "error" \in DOMAIN locals THEN locals.error ELSE "validate raised",
          file_path |-> file_path, is_markdown |-> FALSE,
          validation_msg |-> "conversion exception"]
    ELSE IF "verdict" \in DOMAIN locals
    THEN [success |-> TRUE, content |-> locals.content,
          char_count |-> Len(locals.content), file_path |-> file_path,
          is_markdown |-> locals.verdict.is_valid, validation_msg |-> locals.verdict]
    ELSE [success |-> FALSE, error |-> "no content extracted",
          file_path |-> file_path, is_markdown |-> FALSE,
          validation_msg |-> "conversion failed"]

\* lines 1614-1622, 1644-1654 or 1670-1679, then 1434-1444: the conversion is
\* added to the history and the recent files, the result is stored and the
\* file is selected
RecordStep(file_path) ==
    /\ pc[file_path] = "record"
    /\ LET result == ResultOf(file_path, frame[file_path])
           char_count == IF result.success THEN result.char_count ELSE 0
           error_msg == IF result.success THEN "" ELSE result.error
       IN /\ history' = AddConversion(history, <<file_path>>, result.success,
                                      error_msg, char_count)
          /\ recent_files' = AddRecentFile(recent_files, disk, file_path, result.success)
          /\ conversion_results' = [conversion_results EXCEPT ![file_path] = result]
          /\ snackbar' = [kind |-> IF result.success THEN "converted"
                                   ELSE "conversion failed"]
    /\ current_selected_file' = file_path
    /\ status_bar' = SelectStatus(conversion_results', file_path)
    /\ pc' = [pc EXCEPT ![file_path] = "idle"]
    /\ frame' = [frame EXCEPT ![file_path] = NoValue]
    /\ UNCHANGED <<components, disk, text_content, converter, selected_files, gate,
                   validate_calls, verdict, calls>>

(***************************************************************************)
(* The texts the converter extracts.                                       *)
(***************************************************************************)
\* all sequences of 1..n elements of S
SeqsUpTo(S, n) == UNION {[1..m -> S] : m \in 1..n}

\* quality-gate texts: a head followed by a unit repeated 0..MaxRep times
Heads == {<<>>, <<"a", "b", "c", "d", "e">>, <<"\t">>}
Units == {<<"a">>, <<"1">>, <<" ">>, <<"a", " ">>, <<"a", "\n">>, <<"1", " ">>,
          <<"1", "\n">>, <<"a", "1">>}
GateTexts == {h \o Repeat(u, n) : h \in Heads, u \in Units, n \in 0..MaxRep}

\* Markdown texts: the concatenation of up to n tokens of a vocabulary
TokenTexts(vocabulary, n) ==
    {<<>>} \cup {Concat(ts) : ts \in SeqsUpTo(vocabulary, n)}

HeaderVocabulary ==
    {<<"#">>, <<"#", "#">>, <<"#", "#", "#", "#", "#", "#">>,
     <<"#", "#", "#", "#", "#", "#", "#">>, <<" ">>, <<"\t">>, <<"a">>, <<"\n">>}

BracketVocabulary ==
    {<<"!">>, <<"[", "a", "]">>, <<"[", "]">>, <<"(", "b", ")">>, <<"a">>, <<" ">>}

FragmentVocabulary ==
    {<<"*", "a", "*">>, <<"-", " ", "a">>, <<Backtick, "a", Backtick>>,
     <<">", " ", "a">>, <<"|", "a", "|", "\n">>, <<"|", "-", "-", "-", "|">>,
     <<"-", "-", "-">>, <<" ", " ">>, <<"<", "a", ">">>, <<"&", "a", ";">>,
     <<"\\", "*">>, <<"\n">>, <<"a">>, <<"a", "\n">>, <<"~", "~", "~">>,
     <<Backtick, Backtick, Backtick>>}

SetextVocabulary ==
    {<<"a">>, <<"\n">>, <<"=", "=">>, <<"=", "=", "=">>, <<" ">>, <<"#">>}

MarkdownTexts ==
    TokenTexts(HeaderVocabulary, MaxTokens) \cup TokenTexts(BracketVocabulary, MaxTokens)
        \cup TokenTexts(FragmentVocabulary, MaxFragments)
        \cup TokenTexts(SetextVocabulary, MaxTokens)

\* texts compared pairwise: each raises one measure and leaves the others low
StepUnits == {<<"a", "a", "a", "a", "a", "a", "a", "a", "a", "a">>, <<"a", "\n">>, <<"a", " ">>}
StepTexts == {Repeat(u, n) : u \in StepUnits, n \in 0..MaxSteps}

\* texts of converted files: empty, digits only, one long word, three plain
\* lines, three Markdown lines
BatchTexts ==
    {<<>>,
     <<"1", "\n", "1", "\n", "1">>,
     Repeat(<<"a">>, 31),
     <<"a", "\n", "a", "\n", "a">>,
     <<"#", " ", "a", "\n", "-", " ", "a", "\n", ">", " ", "a">>}

\* texts of interleaved conversions: digits only, three plain lines, three
\* Markdown lines
InterleaveTexts ==
    {<<"1", "\n", "1", "\n", "1">>,
     <<"a", "\n", "a", "\n", "a">>,
     <<"#", " ", "a", "\n", "-", " ", "a", "\n", ">", " ", "a">>}

\* the texts of the two files of the list: three Markdown lines, which the
\* gate accepts, and digits only, which it rejects
ListTexts ==
    [p \in Paths |-> IF p = "f1"
                     THEN <<"#", " ", "a", "\n", "-", " ", "a", "\n", ">", " ", "a">>
                     ELSE <<"1", "\n", "1", "\n", "1">>]

\* texts of every kind: empty, whitespace only, digits only, one character
\* repeated, header marks, underlines, several lines
TotalVocabulary ==
    {<<"#">>, <<" ">>, <<"1">>, <<"a">>, <<"\n">>, <<"=">>,
     <<"a", "\n", "a", "\n", "a", "\n">>}

TotalTexts == TokenTexts(TotalVocabulary, MaxTokens)

(***************************************************************************)
(* The file list while a batch conversion is in progress.  The handlers    *)
(* run in threads of their own, so the remove and clear buttons act while  *)
(* start_conversion is inside its loop.  batch holds the position of       *)
(* start_conversion: the index of the list iterator of line 1178 and the   *)
(* local file_path.                                                        *)
(***************************************************************************)
\* list.remove
RemoveFrom(list, x) == SelectSeq(list, LAMBDA y : y # x)

\* remove_file_from_list, main.py lines 1087-1106
RemoveFileFromList(file_path) ==
    /\ InSeq(file_path, selected_files)
    /\ selected_files' = RemoveFrom(selected_files, file_path)
    /\ IF current_selected_file = file_path
       THEN /\ current_selected_file' = None
            /\ status_bar' = [icon |-> "file removed", file |-> None]
       ELSE UNCHANGED <<current_selected_file, status_bar>>
    /\ conversion_results' = [conversion_results EXCEPT ![file_path] = NoValue]
    /\ UNCHANGED <<components, disk, text_content, converter, history, recent_files,
                   gate, validate_calls, verdict, snackbar, stepwise>>

\* clear_files, main.py lines 1108-1117
ClearFiles ==
    /\ selected_files' = <<>>
    /\ conversion_results' = [p \in Paths |-> NoValue]
    /\ current_selected_file' = None
    /\ UNCHANGED <<components, disk, text_content, converter, history, recent_files,
                   gate, validate_calls, verdict, shown, stepwise>>

\* start_conversion, lines 1167-1178: the warning for an empty list, or the
\* list iterator of the loop is created
StartConversionBegin ==
    /\ batch.at = "idle"
    /\ IF selected_files = <<>>
       THEN /\ snackbar' = [kind |-> "select files first"]
            /\ UNCHANGED <<batch, status_bar>>
       ELSE /\ Len(history) < MaxConversions
            /\ batch' = [at |-> "for", index |-> 0]
            /\ status_bar' = [icon |-> "batch started", file |-> None]
            /\ UNCHANGED snackbar
    /\ UNCHANGED <<updater, ui_cache, now, max_recent, last_call, disk, text_content,
                   converter, selected_files, conversion_results, current_selected_file,
                   history, recent_files, gate, validate_calls, verdict, stepwise>>

\* lines 1178-1182: the iterator yields the next file of the list as it is
\* now, and convert_file_internal is called on it
BatchNext ==
    /\ batch.at = "for"
    /\ batch.index < Len(selected_files)
    /\ Len(history) < MaxConversions
    /\ batch' = [at |-> "convert_file_internal", index |-> batch.index + 1,
                 file_path |-> selected_files[batch.index + 1]]
    /\ status_bar' = [icon |-> "converting", file |-> None]
    /\ UNCHANGED <<updater, ui_cache, now, max_recent, last_call, disk, text_content,
                   converter, selected_files, conversion_results, current_selected_file,
                   history, recent_files, gate, validate_calls, verdict, snackbar,
                   stepwise>>

\* lines 1185-1186: convert_file_internal returns and its result is stored
\* under the local file_path
BatchConvert ==
    /\ batch.at = "convert_file_internal"
    /\ \E raised \in BOOLEAN :
           \E c \in {ConvertFileInternal(batch.file_path, raised)} :
              /\ conversion_results' = [conversion_results EXCEPT ![batch.file_path] = c.result]
              /\ history' = c.history
              /\ recent_files' = c.recent_files
              /\ gate' = [gate EXCEPT ![batch.file_path] = c.gate]
              /\ validate_calls' = validate_calls \cup c.validated
              /\ verdict' = IF c.validated = {} THEN verdict ELSE c.verdict
    /\ batch' = [at |-> "for", index |-> batch.index]
    /\ UNCHANGED <<updater, ui_cache, now, max_recent, last_call, disk, text_content,
                   converter, selected_files, current_selected_file, shown, stepwise>>

\* lines 1188-1208: the iterator is exhausted; the first file converted with
\* success is selected when no file is, and the summary is shown
BatchFinish ==
    /\ batch.at = "for"
    /\ batch.index >= Len(selected_files)
    /\ batch' = [at |-> "idle"]
    /\ snackbar' = Summary(conversion_results)
    /\ LET first == FirstSuccessful(conversion_results)
       IN IF current_selected_file = None /\ first # None
          THEN /\ current_selected_file' = first
               /\ status_bar' = SelectStatus(conversion_results, first)
          ELSE /\ current_selected_file' = current_selected_file
               /\ status_bar' = [icon |-> "batch done", file |-> None]
    /\ UNCHANGED <<updater, ui_cache, now, max_recent, last_call, disk, text_content,
                   converter, selected_files, conversion_results, history, recent_files,
                   gate, validate_calls, verdict, stepwise>>

(***************************************************************************)
(* The BatchUpdater, batch_updater.py lines 12-66.  schedule_update and    *)
(* immediate_update are called from the threads of the handlers, and       *)
(* _execute_batch_update runs in the thread of a threading.Timer.  The     *)
(* lock is a threading.Lock, which is not reentrant: acquiring it blocks   *)
(* while any thread holds it, the acquiring thread included.  A thread is  *)
(* [caller |-> c] or [timer |-> t]; the k-th call of schedule_update       *)
(* passes the function k and creates the timer k.                          *)
(***************************************************************************)
\* the threads that call the BatchUpdater
Callers == {"c1", "c2"}

\* the timers started and not yet fired
Started == {t \in 1..Len(timers) : timers[t] = "started"}

\* the calls of schedule_update made so far, the ones in progress included
Scheduling == {c \in Callers : callers[c].at \in {"schedule_update:23", "schedule_update:25"}}

\* Timer.cancel: it stops a timer that has not fired yet and has no effect
\* on one whose callback was already called
Cancel(all, reference) ==
    IF reference = NoValue THEN all
    ELSE [all EXCEPT ![reference.timer] = IF @ = "started" THEN "cancelled" ELSE @]

\* the thread waits for the lock at line 38
WaitsForLock(thread) ==
    IF "timer" \in DOMAIN thread
    THEN thread.timer \in 1..Len(timers) /\ timers[thread.timer] = "fired"
    ELSE callers[thread.caller].at = "_execute_batch_update:38"

\* the thread is inside the with block of _execute_batch_update
InBatchUpdate(thread) ==
    IF "timer" \in DOMAIN thread
    THEN thread.timer \in 1..Len(timers) /\ timers[thread.timer] = "running"
    ELSE callers[thread.caller].at = "_execute_batch_update:39"

\* the thread moves to the position at
MoveTo(thread, status, at) ==
    IF "timer" \in DOMAIN thread
    THEN /\ timers' = [timers EXCEPT ![thread.timer] = status]
         /\ UNCHANGED callers
    ELSE /\ callers' = [callers EXCEPT ![thread.caller] = [at |-> at]]
         /\ UNCHANGED timers

\* a thread calls schedule_update and reaches the with statement of line 23
ScheduleUpdateCall(c) ==
    /\ callers[c].at = "idle"
    /\ Len(timers) + Cardinality(Scheduling) < MaxUpdates
    /\ callers' = [callers EXCEPT ![c] = [at |-> "schedule_update:23"]]
    /\ UNCHANGED <<app, batch, ui_cache, now, max_recent, last_call,
                   pending_updates, update_timer, lock, timers, executed>>

\* line 23: the lock is acquired
ScheduleUpdateAcquire(c) ==
    /\ callers[c].at = "schedule_update:23"
    /\ lock = NoValue
    /\ lock' = [caller |-> c]
    /\ callers' = [callers EXCEPT ![c] = [at |-> "schedule_update:25"]]
    /\ UNCHANGED <<app, batch, ui_cache, now, max_recent, last_call,
                   pending_updates, update_timer, timers, executed>>

\* lines 25-34 and the end of the with block: the function is appended (a
\* function is true and differs from the lambda line 25 creates to compare it
\* with), the timer referred to is cancelled, a new timer is created and
\* started, the lock is released
ScheduleUpdate(c) ==
    /\ callers[c].at = "schedule_update:25"
    /\ LET k == Len(timers) + 1
       IN /\ pending_updates' = Append(pending_updates, k)
          /\ timers' = Append(Cancel(timers, update_timer), "started")
          /\ update_timer' = [timer |-> k]
    /\ lock' = NoValue
    /\ callers' = [callers EXCEPT ![c] = [at |-> "idle"]]
    /\ UNCHANGED <<app, batch, ui_cache, now, max_recent, last_call, executed>>

\* the delay of a started timer has passed: its thread calls
\* _execute_batch_update and reaches the with statement of line 38
TimerFires(t) ==
    /\ t \in Started
    /\ timers' = [timers EXCEPT ![t] = "fired"]
    /\ UNCHANGED <<app, batch, ui_cache, now, max_recent, last_call,
                   pending_updates, update_timer, lock, callers, executed>>

\* line 38: the lock is acquired
ExecuteAcquire(thread) ==
    /\ WaitsForLock(thread)
    /\ lock = NoValue
    /\ lock' = thread
    /\ MoveTo(thread, "running", "_execute_batch_update:39")
    /\ UNCHANGED <<app, batch, ui_cache, now, max_recent, last_call,
                   pending_updates, update_timer, executed>>

\* lines 39-58 and the end of the with block: the pending functions run in
\* order, each of them may raise (lines 45-46), page.update may raise (lines
\* 55-56, which skips the clear of line 53), the reference to the timer is
\* erased, the lock is released
ExecuteBatchUpdate(thread) ==
    /\ InBatchUpdate(thread)
    /\ IF pending_updates # <<>>
       THEN \E failing \in SUBSET Named(pending_updates), page_raises \in BOOLEAN :
               /\ executed' = Append(executed,
                      [functions |-> pending_updates, failed |-> failing,
                       page |-> IF page_raises THEN "raised" ELSE "updated"])
               /\ pending_updates' = IF page_raises THEN pending_updates ELSE <<>>
       ELSE UNCHANGED <<executed, pending_updates>>
    /\ update_timer' = NoValue
    /\ lock' = NoValue
    /\ MoveTo(thread, "finished", "idle")
    /\ UNCHANGED <<app, batch, ui_cache, now, max_recent, last_call>>

\* a thread calls immediate_update and reaches the with statement of line 62
ImmediateUpdateCall(c) ==
    /\ callers[c].at = "idle"
    /\ callers' = [callers EXCEPT ![c] = [at |-> "immediate_update:62"]]
    /\ UNCHANGED <<app, batch, ui_cache, now, max_recent, last_call,
                   pending_updates, update_timer, lock, timers, executed>>

\* line 62: the lock is acquired
ImmediateAcquire(c) ==
    /\ callers[c].at = "immediate_update:62"
    /\ lock = NoValue
    /\ lock' = [caller |-> c]
    /\ callers' = [callers EXCEPT ![c] = [at |-> "immediate_update:63"]]
    /\ UNCHANGED <<app, batch, ui_cache, now, max_recent, last_call,
                   pending_updates, update_timer, timers, executed>>

\* lines 63-66: the timer referred to is cancelled and the reference erased,
\* then _execute_batch_update is called inside the with block and reaches
\* its own with statement, line 38
ImmediateUpdate(c) ==
    /\ callers[c].at = "immediate_update:63"
    /\ timers' = Cancel(timers, update_timer)
    /\ update_timer' = NoValue
    /\ callers' = [callers EXCEPT ![c] = [at |-> "_execute_batch_update:38"]]
    /\ UNCHANGED <<app, batch, ui_cache, now, max_recent, last_call,
                   pending_updates, lock, executed>>

\* the threads that can run _execute_batch_update
Threads == {[caller |-> c] : c \in Callers} \cup {[timer |-> t] : t \in 1..MaxUpdates}

(***************************************************************************)
(* The ConversionHistory called on its own, history_manager.py.  Here the  *)
(* records carry their timestamp (line 44), read from the clock now, which *)
(* advances with every record.                                             *)
(***************************************************************************)
\* add_conversion with the timestamp of line 44
AddConversionAt(h, timestamp, files, success, error_msg, char_count) ==
    LET added == AddConversion(h, files, success, error_msg, char_count)
    IN <<[timestamp |-> timestamp] @@ added[1]>> \o Tail(added)

\* dict.get
Get(d, key, default) == IF key \in DOMAIN d THEN d[key] ELSE default

\* add_record, history_manager.py lines 62-75
AddRecord(h, timestamp, record_data) ==
    AddConversionAt(h, timestamp,
                    <<Get(record_data, "file_path", "")>>,
                    Get(record_data, "success", FALSE),
                    Get(record_data, "error", ""),
                    Get(record_data, "content_length", 0))

\* the arguments of the add_conversion calls
ConversionCalls == {[files |-> <<"f1">>, success |-> TRUE, error_msg |-> "", char_count |-> 0]}

\* the arguments of the add_record calls
RecordCalls == {[file_path |-> "f1", success |-> TRUE]}

\* a call of add_conversion
HistoryAddConversion ==
    /\ now < MaxAdds
    /\ \E a \in ConversionCalls :
           history' = AddConversionAt(history, now, a.files, a.success, a.error_msg,
                                      a.char_count)
    /\ now' = now + 1
    /\ last_call' = [op |-> "add_conversion", before |-> history]
    /\ UNCHANGED <<batch, updater, ui_cache, max_recent, disk, text_content, converter,
                   selected_files, conversion_results, current_selected_file,
                   recent_files, gate, validate_calls, verdict, shown, stepwise>>

\* a call of add_record
HistoryAddRecord ==
    /\ now < MaxAdds
    /\ \E record_data \in RecordCalls : history' = AddRecord(history, now, record_data)
    /\ now' = now + 1
    /\ last_call' = [op |-> "add_record", before |-> history]
    /\ UNCHANGED <<batch, updater, ui_cache, max_recent, disk, text_content, converter,
                   selected_files, conversion_results, current_selected_file,
                   recent_files, gate, validate_calls, verdict, shown, stepwise>>

\* clear_history, history_manager.py lines 93-96
ClearHistory ==
    /\ history' = <<>>
    /\ last_call' = [op |-> "clear_history", before |-> history]
    /\ UNCHANGED <<batch, updater, ui_cache, now, max_recent, disk, text_content,
                   converter, selected_files, conversion_results, current_selected_file,
                   recent_files, gate, validate_calls, verdict, shown, stepwise>>

(***************************************************************************)
(* The RecentFilesManager called on its own, recent_files.py, constructed  *)
(* with any max_recent from 1 on.                                          *)
(***************************************************************************)
\* the paths passed to the manager; the last one does not exist
RecentPaths == {"f1", "f2", "f3", "f4", "missing"}

\* remove_recent_file, recent_files.py lines 86-89
RemoveRecentFile(r, file_path) == SelectSeq(r, LAMBDA f : f.path # file_path)

\* a call of add_recent_file
RecentAdd(file_path, success) ==
    /\ recent_files' = AddRecentFile(recent_files, disk, file_path, success)
    /\ last_call' = [op |-> "add_recent_file", path |-> file_path, success |-> success,
                     before |-> recent_files]
    /\ UNCHANGED <<batch, updater, ui_cache, now, max_recent, disk, text_content,
                   converter, selected_files, conversion_results, current_selected_file,
                   history, gate, validate_calls, verdict, shown, stepwise>>

\* a call of remove_recent_file
RecentRemove(file_path) ==
    /\ recent_files' = RemoveRecentFile(recent_files, file_path)
    /\ last_call' = [op |-> "remove_recent_file", path |-> file_path,
                     before |-> recent_files]
    /\ UNCHANGED <<batch, updater, ui_cache, now, max_recent, disk, text_content,
                   converter, selected_files, conversion_results, current_selected_file,
                   history, gate, validate_calls, verdict, shown, stepwise>>

\* clear_recent_files, recent_files.py lines 81-84
RecentClear ==
    /\ recent_files' = <<>>
    /\ last_call' = [op |-> "clear_recent_files", before |-> recent_files]
    /\ UNCHANGED <<batch, updater, ui_cache, now, max_recent, disk, text_content,
                   converter, selected_files, conversion_results, current_selected_file,
                   history, gate, validate_calls, verdict, shown, stepwise>>

(***************************************************************************)
(* The UICache, batch_updater.py lines 69-106, constructed with any        *)
(* max_size from 0 on.  A call that raises leaves the exception in         *)
(* last_call.                                                              *)
(***************************************************************************)
\* the keys of the cached components
CacheKeys == {"k1", "k2", "k3"}

\* the cached components
Components == {"w1", "w2"}

\* the keys of the dict
Keys(c) == {k \in CacheKeys : c[k] # NoValue}

\* list.remove: the list without the first x
RemoveFirst(list, x) ==
    LET at == CHOOSE i \in 1..Len(list) : list[i] = x /\ \A j \in 1..(i - 1) : list[j] # x
    IN SubSeq(list, 1, at - 1) \o SubSeq(list, at + 1, Len(list))

\* UICache.put, lines 86-97: the cache and the order it leaves, and the
\* exception it raised, if any; pop(0) of line 93 raises on an empty list
Put(c, order, size, key, component) ==
    IF c[key] # NoValue
    THEN IF ~InSeq(key, order)
         THEN [cache |-> c, access_order |-> order, raised |-> "ValueError"]
         ELSE [cache |-> [c EXCEPT ![key] = [component |-> component]],
               access_order |-> Append(RemoveFirst(order, key), key),
               raised |-> ""]
    ELSE IF Cardinality(Keys(c)) >= size
    THEN IF order = <<>>
         THEN [cache |-> c, access_order |-> order, raised |-> "IndexError"]
         ELSE LET oldest_key == Head(order)
              IN IF c[oldest_key] = NoValue
                 THEN [cache |-> c, access_order |-> Tail(order), raised |-> "KeyError"]
                 ELSE [cache |-> [c EXCEPT ![oldest_key] = NoValue, ![key] = [component |-> component]],
                       access_order |-> Append(Tail(order), key),
                       raised |-> ""]
    ELSE [cache |-> [c EXCEPT ![key] = [component |-> component]],
          access_order |-> Append(order, key),
          raised |-> ""]

\* UICache.get, lines 77-84: the order it leaves and the value returned
GetCached(c, order, key) ==
    IF c[key] # NoValue
    THEN IF ~InSeq(key, order)
         THEN [access_order |-> order, raised |-> "ValueError", value |-> NoValue]
         ELSE [access_order |-> Append(RemoveFirst(order, key), key), raised |-> "",
               value |-> c[key]]
    ELSE [access_order |-> order, raised |-> "", value |-> NoValue]

\* a call of put
CachePut(key, component) ==
    /\ \E p \in {Put(cache, access_order, max_size, key, component)} :
          /\ cache' = p.cache
          /\ access_order' = p.access_order
          /\ last_call' = [op |-> "put", key |-> key, cache |-> cache,
                           access_order |-> access_order, raised |-> p.raised]
    /\ UNCHANGED <<app, batch, updater, max_size, now, max_recent>>

\* a call of get
CacheGet(key) ==
    /\ \E g \in {GetCached(cache, access_order, key)} :
          /\ access_order' = g.access_order
          /\ last_call' = [op |-> "get", key |-> key, cache |-> cache,
                           access_order |-> access_order, raised |-> g.raised,
                           value |-> g.value]
    /\ UNCHANGED <<app, batch, updater, cache, max_size, now, max_recent>>

\* UICache.clear, lines 99-102
CacheClear ==
    /\ cache' = [k \in CacheKeys |-> NoValue]
    /\ access_order' = <<>>
    /\ last_call' = [op |-> "clear", cache |-> cache, access_order |-> access_order,
                     raised |-> ""]
    /\ UNCHANGED <<app, batch, updater, max_size, now, max_recent>>

(***************************************************************************)
(* Specifications.                                                         *)
(***************************************************************************)
\* BatchUpdater.__init__, batch_updater.py lines 15-20
InitUpdater ==
    /\ pending_updates = <<>>
    /\ update_timer = NoValue
    /\ lock = NoValue
    /\ timers = <<>>
    /\ callers = [c \in Callers |-> [at |-> "idle"]]
    /\ executed = <<>>

\* batch_updater.py line 72: the default max_size
DefaultMaxSize == 100

\* UICache.__init__, batch_updater.py lines 72-75
InitCache(size) ==
    /\ max_size = size
    /\ cache = [k \in CacheKeys |-> NoValue]
    /\ access_order = <<>>

\* the PerformanceManager of init_ui (main.py line 310, batch_updater.py lines
\* 112-116), the RecentFilesManager with max_recent entries, the clock
InitComponents(recent) ==
    /\ batch = [at |-> "idle"]
    /\ InitUpdater
    /\ InitCache(DefaultMaxSize)
    /\ now = 0
    /\ max_recent = recent
    /\ last_call = NoValue

\* the lists of the application after __init__ (main.py lines 39-71)
InitLists ==
    /\ selected_files = <<>>
    /\ conversion_results = [p \in Paths |-> NoValue]
    /\ current_selected_file = None
    /\ history = <<>>
    /\ recent_files = <<>>
    /\ gate = [p \in Paths |-> NoValue]
    /\ validate_calls = {}
    /\ verdict = NoValue
    /\ status_bar = [icon |-> "ready", file |-> None]
    /\ snackbar = NoValue
    /\ pc = [p \in Paths |-> "idle"]
    /\ frame = [p \in Paths |-> NoValue]
    /\ calls = <<>>

\* the handlers' state after __init__ with a working converter (init_converter,
\* main.py lines 919-934)
InitHandlers == converter = "MarkItDown" /\ InitLists

\* the state after __init__ and init_ui
InitApp == InitHandlers /\ InitComponents(MaxRecent)

\* one file on the disk, holding the text t
OneFile(t) ==
    /\ disk = {"f1"}
    /\ text_content = [p \in Paths |-> IF p = "f1" THEN t ELSE <<>>]

\* Conversions of a file that holds any of the quality-gate texts.
Init == InitApp /\ \E t \in GateTexts : OneFile(t)

Next ==
    \/ \E f \in Paths : AddFileToList(f)
    \/ \E f \in Paths : ConvertSingleFile(f)

Spec == Init /\ [][Next]_vars

\* The classifier applied to any of the Markdown texts.
InitClassify == InitApp /\ \E t \in MarkdownTexts : OneFile(t)

NextClassify == \E f \in Paths : ValidateText(f)

SpecClassify == InitClassify /\ [][NextClassify]_vars

\* The quality gate applied to two texts, to compare their scores.
InitPair ==
    /\ InitApp
    /\ disk = Paths
    /\ text_content \in [Paths -> StepTexts]

NextPair == \E f \in Paths : GateText(f)

SpecPair == InitPair /\ [][NextPair]_vars

\* The handlers of the file list on two files that hold any of the batch texts.
InitBatch ==
    /\ InitApp
    /\ disk = Paths
    /\ text_content \in [Paths -> BatchTexts]

NextBatch ==
    \/ \E f \in Paths : AddFileToList(f)
    \/ \E f \in Paths : SelectFileToView(f)
    \/ \E f \in Paths : ConvertSingleFile(f)
    \/ StartConversion

SpecBatch == InitBatch /\ [][NextBatch]_vars

\* Conversions of a file that holds a text of any kind, and the classifier
\* applied to it.
InitTotal == InitApp /\ \E t \in TotalTexts : OneFile(t)

NextTotal ==
    \/ \E f \in Paths : AddFileToList(f)
    \/ \E f \in Paths : ConvertSingleFile(f)
    \/ \E f \in Paths : ValidateText(f)

SpecTotal == InitTotal /\ [][NextTotal]_vars

\* Conversions of two files running step by step, interleaved.
InitInterleave ==
    /\ InitApp
    /\ disk = Paths
    /\ text_content \in [Paths -> InterleaveTexts]

NextInterleave ==
    \/ \E f \in Paths : AddFileToList(f)
    \/ \E f \in Paths : BeginConversion(f)
    \/ \E f \in Paths : GateStep(f)
    \/ \E f \in Paths : ClassifyStep(f)
    \/ \E f \in Paths : RecordStep(f)

SpecInterleave == InitInterleave /\ [][NextInterleave]_vars

\* The handlers of the file list on two files, the batch conversion running
\* step by step.
InitFiles ==
    /\ InitApp
    /\ disk = Paths
    /\ text_content = ListTexts

NextFiles ==
    \/ \E f \in Paths : AddFileToList(f)
    \/ \E f \in Paths : RemoveFileFromList(f)
    \/ ClearFiles
    \/ \E f \in Paths : SelectFileToView(f)
    \/ \E f \in Paths : ConvertSingleFile(f)
    \/ StartConversionBegin
    \/ BatchNext
    \/ BatchConvert
    \/ BatchFinish

SpecFiles == InitFiles /\ [][NextFiles]_vars

\* Conversions of two files that hold any of the batch texts, with a working
\* converter or with the converter that init_converter left None (line 939).
InitRecord ==
    /\ converter \in {None, "MarkItDown"}
    /\ InitLists
    /\ InitComponents(MaxRecent)
    /\ disk = Paths
    /\ text_content \in [Paths -> BatchTexts]

NextRecord ==
    \/ \E f \in Paths : AddFileToList(f)
    \/ \E f \in Paths : ConvertSingleFile(f)

SpecRecord == InitRecord /\ [][NextRecord]_vars

\* The ConversionHistory of a first start, called on its own.
InitHistory == InitApp /\ disk = {} /\ text_content = [p \in Paths |-> <<>>]

NextHistory ==
    \/ HistoryAddConversion
    \/ HistoryAddRecord
    \/ ClearHistory

SpecHistory == InitHistory /\ [][NextHistory]_vars

\* The RecentFilesManager of a first start, called on its own.
InitRecent ==
    /\ InitHandlers
    /\ \E recent \in 1..MaxListed : InitComponents(recent)
    /\ disk = RecentPaths \ {"missing"}
    /\ text_content = [p \in Paths |-> <<>>]

NextRecent ==
    \/ \E f \in RecentPaths, success \in BOOLEAN : RecentAdd(f, success)
    \/ \E f \in RecentPaths : RecentRemove(f)
    \/ RecentClear

SpecRecent == InitRecent /\ [][NextRecent]_vars

\* A UICache of any size, called on its own.
InitUICache ==
    /\ InitHandlers
    /\ batch = [at |-> "idle"]
    /\ InitUpdater
    /\ \E size \in 0..MaxCached : InitCache(size)
    /\ now = 0
    /\ max_recent = MaxRecent
    /\ last_call = NoValue
    /\ disk = {}
    /\ text_content = [p \in Paths |-> <<>>]

NextUICache ==
    \/ \E key \in CacheKeys, component \in Components : CachePut(key, component)
    \/ \E key \in CacheKeys : CacheGet(key)
    \/ CacheClear

SpecUICache == InitUICache /\ [][NextUICache]_vars

\* no file on the disk
NoFiles ==
    /\ disk = {}
    /\ text_content = [p \in Paths |-> <<>>]

\* The BatchUpdater called from two threads, with its timers.
InitBatchUpdater == InitApp /\ NoFiles

NextBatchUpdater ==
    \/ \E c \in Callers : ScheduleUpdateCall(c)
    \/ \E c \in Callers : ScheduleUpdateAcquire(c)
    \/ \E c \in Callers : ScheduleUpdate(c)
    \/ \E t \in 1..MaxUpdates : TimerFires(t)
    \/ \E thread \in Threads : ExecuteAcquire(thread)
    \/ \E thread \in Threads : ExecuteBatchUpdate(thread)
    \/ \E c \in Callers : ImmediateUpdateCall(c)
    \/ \E c \in Callers : ImmediateAcquire(c)
    \/ \E c \in Callers : ImmediateUpdate(c)

SpecBatchUpdater == InitBatchUpdater /\ [][NextBatchUpdater]_vars

(***************************************************************************)
(* Properties of the quality gate.                                         *)
(***************************************************************************)
\* the paths whose text went through the quality gate
Gated == {f \in Paths : gate[f] # NoValue}

\* the text has no character besides whitespace (the empty text included)
Blank(content) == \A i \in 1..Len(content) : content[i] \in Whitespace

\* the number of whitespace-delimited tokens: the positions where a token starts
TokenCount(content) ==
    Cardinality({i \in 1..Len(content) :
                    /\ content[i] \notin Whitespace
                    /\ (i = 1 \/ content[i - 1] \in Whitespace)})

\* the number of lines that hold a character besides whitespace
NonEmptyLineCount(content) ==
    LET lines == Split(content, "\n")
    IN Cardinality({n \in 1..Len(lines) : ~Blank(lines[n])})

\* the number of characters left after trimming
TrimmedLength(content) == Len(Strip(content))

\* a sub-score: 2 above the upper bound, 1 above the lower bound, else 0
Points(measure, lower, upper) ==
    IF measure > upper THEN 2 ELSE IF measure > lower THEN 1 ELSE 0

\* C1: for every non-empty text the gate decides by the three-way rule in
\* priority order: score >= 3, not only numbers and not repetitive is accepted
\* as good quality; otherwise score >= 1 and not only numbers is accepted as
\* acceptable quality; otherwise the text is rejected as insufficient quality.
C1_ThreeWayRule ==
    \A f \in Gated :
        LET g == gate[f]
        IN ~Blank(g.content) =>
             IF g.quality_score >= 3 /\ ~g.is_only_numbers /\ ~g.is_repetitive
             THEN g.is_valid_content /\ g.content_analysis = "good quality"
             ELSE IF g.quality_score >= 1 /\ ~g.is_only_numbers
             THEN g.is_valid_content /\ g.content_analysis = "acceptable quality"
             ELSE ~g.is_valid_content /\ g.content_analysis = "insufficient quality"

\* C1 witness: a repetitive text with a score of at least 3 was accepted by
\* the second branch of the rule
C1_Witness ==
    \E f \in Gated :
        /\ ~Blank(gate[f].content)
        /\ gate[f].quality_score >= 3
        /\ gate[f].is_repetitive
        /\ gate[f].content_analysis = "acceptable quality"
        /\ conversion_results[f].success

C3_ScoreIsSum ==
    \A f \in Gated :
        LET content == gate[f].content
        IN ~Blank(content) =>
             /\ gate[f].quality_score =
                    Points(TrimmedLength(content), 30, 100)
                      + Points(NonEmptyLineCount(content), 2, 5)
                      + Points(TokenCount(content), 8, 20)
             /\ gate[f].quality_score \in 0..6

\* C3 witness: a text of exactly 100 characters after trimming, in one line and
\* one token, scored 1
C3_Witness ==
    \E f \in Gated :
        /\ TrimmedLength(gate[f].content) = 100
        /\ NonEmptyLineCount(gate[f].content) = 1
        /\ TokenCount(gate[f].content) = 1
        /\ gate[f].quality_score = 1

\* the text holds a character besides whitespace, and nothing but decimal
\* digits once its spaces and newlines are removed
DigitsOnly(content) ==
    /\ ~Blank(content)
    /\ \A i \in 1..Len(content) : content[i] \in Digits \cup {" ", "\n"}

\* C4: a non-empty text that holds only decimal digits once spaces and newlines
\* are removed is rejected, whatever its length, line count and word count.
C4_DigitsRejected ==
    \A f \in Gated :
        DigitsOnly(gate[f].content) =>
            /\ ~gate[f].is_valid_content
            /\ ~conversion_results[f].success

\* C4 witness: an all-digit text with the full score of 6 was rejected
C4_Witness ==
    \E f \in Gated :
        /\ DigitsOnly(gate[f].content)
        /\ gate[f].quality_score = 6
        /\ ~gate[f].is_valid_content

\* the text is one character repeated one or more times
SingleCharRepeated(content) ==
    Len(content) >= 1 /\ \A i \in 1..Len(content) : content[i] = content[1]

\* C5: a text that is a single character repeated n >= 1 times is rejected.
C5_RepeatRejected ==
    \A f \in Gated :
        SingleCharRepeated(gate[f].content) => ~gate[f].is_valid_content

\* the other two measures of a text score nothing
LowLines(content) == NonEmptyLineCount(content) <= 2
LowWords(content) == TokenCount(content) <= 8
LowLength(content) == TrimmedLength(content) <= 30

\* C6: the score never falls when one of trimmed length, non-empty line count
\* and word count rises while the other two stay at values that score nothing.
C6_Monotone ==
    \A p \in Gated : \A q \in Gated :
        LET a == gate[p].content
            b == gate[q].content
            Le == gate[p].quality_score <= gate[q].quality_score
        IN /\ (LowLines(a) /\ LowLines(b) /\ LowWords(a) /\ LowWords(b)
                 /\ TrimmedLength(a) <= TrimmedLength(b)) => Le
           /\ (LowLength(a) /\ LowLength(b) /\ LowWords(a) /\ LowWords(b)
                 /\ NonEmptyLineCount(a) <= NonEmptyLineCount(b)) => Le
           /\ (LowLength(a) /\ LowLength(b) /\ LowLines(a) /\ LowLines(b)
                 /\ TokenCount(a) <= TokenCount(b)) => Le

\* C6 witness: of two gated texts in one line and one token, the longer one
\* crossed both length bounds and scored 2 where the shorter scored 0
C6_Witness ==
    /\ Gated = Paths
    /\ LowLines(gate["f1"].content) /\ LowWords(gate["f1"].content)
    /\ LowLines(gate["f2"].content) /\ LowWords(gate["f2"].content)
    /\ TrimmedLength(gate["f1"].content) = 30
    /\ TrimmedLength(gate["f2"].content) > 100
    /\ gate["f1"].quality_score = 0
    /\ gate["f2"].quality_score = 2

(***************************************************************************)
(* Properties of the Markdown classifier.                                  *)
(***************************************************************************)
Labels == {"standard-markdown", "structured-text", "plain-text"}

\* C7: validate_markdown_content returns is_valid True for every text that
\* holds a character besides whitespace, whichever of the three labels it gets,
\* and is_valid False with the empty-content message exactly when the text is
\* empty or whitespace-only.
C7_ValidUnlessBlank ==
    verdict # NoValue =>
        IF Blank(verdict.content)
        THEN ~verdict.is_valid /\ verdict.status = "empty content"
        ELSE verdict.is_valid /\ verdict.status \in Labels

\* C7 witness: a text labelled plain-text was returned as valid
C7_Witness ==
    /\ verdict # NoValue
    /\ ~Blank(verdict.content)
    /\ verdict.status = "plain-text"
    /\ verdict.is_valid

\* C8: for every non-empty text the label follows the priority order: a
\* detected category gives standard-markdown with the matched names; otherwise
\* more than one non-empty line gives structured-text with the list
\* (multi-line text); otherwise plain-text with the list (basic text).
C8_LabelPriority ==
    (verdict # NoValue /\ ~Blank(verdict.content)) =>
        LET features == MarkdownFeatures(verdict.content)
            matched == {key \in Named(FeatureKeys) : features[key] > 0}
        IN IF matched # {}
           THEN verdict.status = "standard-markdown" /\ Named(verdict.details) = matched
           ELSE IF NonEmptyLineCount(verdict.content) > 1
           THEN verdict.status = "structured-text"
                    /\ verdict.details = <<"multi-line text">>
           ELSE verdict.status = "plain-text" /\ verdict.details = <<"basic text">>

\* C8 witness: a text of several non-empty lines with a detected category was
\* labelled standard-markdown
C8_Witness ==
    /\ verdict # NoValue
    /\ NonEmptyLineCount(verdict.content) > 1
    /\ verdict.status = "standard-markdown"

\* the stripped line starts with exactly k # characters followed by whitespace
\* or the end of the line
AtxOfLevel(line, k) ==
    LET stripped == Strip(line)
    IN /\ Len(stripped) >= k
       /\ \A i \in 1..k : stripped[i] = "#"
       /\ (Len(stripped) = k \/ stripped[k + 1] \in Whitespace)

\* C9: the headers feature is detected for every text with a line that starts
\* with k # characters, for every k in 1..6, followed by whitespace or the end
\* of the line, and no ATX header is detected for 7 or more # characters.
C9_AtxLevels ==
    verdict # NoValue =>
        LET lines == Split(verdict.content, "\n")
            atx == \E n \in 1..Len(lines) : \E k \in 1..6 : AtxOfLevel(lines[n], k)
        IN /\ atx => InSeq("headers", verdict.details)
           /\ (~atx /\ ~HasSetextHeader(lines)) => ~InSeq("headers", verdict.details)

\* the number of occurrences of the character c
Occurrences(content, c) == Cardinality({i \in 1..Len(content) : content[i] = c})

\* the only bracket construct of the text is one image: ![alt](url)
OnlyAnImage(content) ==
    /\ Occurrences(content, "[") = 1 /\ Occurrences(content, "]") = 1
    /\ Occurrences(content, "(") = 1 /\ Occurrences(content, ")") = 1
    /\ \E i \in 1..Len(content) : \E j \in 1..Len(content) : \E k \in 1..Len(content) :
           /\ content[i] = "!" /\ i + 1 < j /\ content[i + 1] = "["
           /\ content[j] = "]" /\ j + 2 < k /\ content[j + 1] = "("
           /\ content[k] = ")"

\* C10: for a text whose only bracket construct is an image, images is
\* detected and links is not.
C10_ImageIsNoLink ==
    (verdict # NoValue /\ OnlyAnImage(verdict.content)) =>
        /\ InSeq("images", verdict.details)
        /\ ~InSeq("links", verdict.details)

\* the characters of content from lo to hi are all different from c
Without(content, lo, hi, c) == \A m \in lo..hi : content[m] # c

\* a bracketed, non-empty link text starts at i and is closed at j
LinkText(content, i, j) ==
    /\ content[i] = "[" /\ content[j] = "]" /\ i + 1 < j
    /\ Without(content, i + 1, j - 1, "]")

\* the text holds an inline link [text](url) with a non-empty url
HasInlineLink(content) ==
    \E i \in 1..Len(content) : \E j \in 1..Len(content) : \E k \in 1..Len(content) :
        /\ LinkText(content, i, j)
        /\ j + 2 < k /\ content[j + 1] = "(" /\ content[k] = ")"
        /\ Without(content, j + 2, k - 1, ")")

\* the text holds a reference link [text][ref], the ref possibly empty
HasReferenceLink(content) ==
    \E i \in 1..Len(content) : \E j \in 1..Len(content) : \E k \in 1..Len(content) :
        /\ LinkText(content, i, j)
        /\ j + 1 < k /\ content[j + 1] = "[" /\ content[k] = "]"
        /\ Without(content, j + 2, k - 1, "]")

\* no exclamation mark stands immediately before an opening bracket
NoMarkBeforeBracket(content) ==
    \A i \in 1..(Len(content) - 1) : ~(content[i] = "!" /\ content[i + 1] = "[")

\* C11: for every text that holds a link [text](url) or [text][ref] and no
\* exclamation mark immediately before an opening bracket, links is detected
\* and images is not.
C11_LinkIsNoImage ==
    (/\ verdict # NoValue
     /\ HasInlineLink(verdict.content) \/ HasReferenceLink(verdict.content)
     /\ NoMarkBeforeBracket(verdict.content)) =>
        /\ InSeq("links", verdict.details)
        /\ ~InSeq("images", verdict.details)

\* C11 witness: a text whose only link is a reference link, with an
\* exclamation mark elsewhere, was classified with links and without images
C11_Witness ==
    /\ verdict # NoValue
    /\ HasReferenceLink(verdict.content) /\ ~HasInlineLink(verdict.content)
    /\ Occurrences(verdict.content, "!") > 0
    /\ NoMarkBeforeBracket(verdict.content)
    /\ InSeq("links", verdict.details)
    /\ ~InSeq("images", verdict.details)

\* the text holds a backtick, one or more other characters and a backtick
HasInlineSpan(content) ==
    \E i \in 1..Len(content) : \E j \in 1..Len(content) :
        /\ i + 1 < j /\ content[i] = Backtick /\ content[j] = Backtick
        /\ Without(content, i + 1, j - 1, Backtick)

\* C12: code is detected for every text that holds a backtick-delimited inline
\* span, a triple-backtick fence marker or a triple-tilde fence marker, also
\* when the text is fenced with tildes only and holds no backtick.
C12_CodeDetected ==
    (/\ verdict # NoValue
     /\ \/ HasInlineSpan(verdict.content)
        \/ Contains(verdict.content, <<Backtick, Backtick, Backtick>>)
        \/ Contains(verdict.content, <<"~", "~", "~">>)) =>
        InSeq("code", verdict.details)

\* the categories with at least one match in the text
MatchedCategories(content) ==
    LET features == MarkdownFeatures(content)
    IN {key \in Named(FeatureKeys) : features[key] > 0}

\* C14: the detected count is the number of the 13 categories with at least
\* one match, each category counted once (an ATX and a Setext header together
\* count 1 for headers), so it lies in 0..13 and the coverage, the count
\* divided by 13 times 100 and printed with one decimal, lies in 0..100.
C14_CountOncePerCategory ==
    (verdict # NoValue /\ ~Blank(verdict.content)) =>
        LET count == Cardinality(MatchedCategories(verdict.content))
        IN /\ count \in 0..13
           /\ verdict.percentage \in 0..1000
           /\ 26 * verdict.percentage - 2000 * count \in -13..13

\* C14 witness: a text with both an ATX and a Setext header and no other
\* category was classified with a coverage of 7.7 percent
C14_Witness ==
    /\ verdict # NoValue
    /\ HasAtxHeader(Split(verdict.content, "\n"))
    /\ HasSetextHeader(Split(verdict.content, "\n"))
    /\ verdict.details = <<"headers">>
    /\ verdict.percentage = 77

\* the checklist of the thirteen categories in its fixed order
Checklist ==
    <<"headers", "emphasis", "lists", "code", "blockquotes", "links", "images",
      "tables", "horizontal_rules", "line_breaks", "html_blocks", "entity_refs",
      "escapes">>

\* the place of a category in the checklist
Place(name) == CHOOSE n \in 1..Len(Checklist) : Checklist[n] = name

\* C15: when a category is detected, the feature list of the message names
\* exactly the matched categories, each once, in checklist order, and its
\* length is the detected count.
C15_DetailsInChecklistOrder ==
    (verdict # NoValue /\ verdict.status = "standard-markdown") =>
        LET details == verdict.details
            matched == MatchedCategories(verdict.content)
        IN /\ Named(details) = matched
           /\ Len(details) = Cardinality(matched)
           /\ \A i \in 1..(Len(details) - 1) : Place(details[i]) < Place(details[i + 1])
           /\ 26 * verdict.percentage - 2000 * Len(details) \in -13..13

\* C15 witness: a text with two matched categories that are not neighbours in
\* the checklist was classified with both names in order
C15_Witness ==
    /\ verdict # NoValue
    /\ verdict.status = "standard-markdown"
    /\ verdict.details = <<"headers", "horizontal_rules">>

\* the first character of the line that is no whitespace is a pipe
PipeLine(line) ==
    \E i \in 1..Len(line) :
        /\ line[i] = "|"
        /\ \A m \in 1..(i - 1) : line[m] \in Whitespace

\* the line holds three = or three - in a row
SeparatorLine(line) ==
    \E i \in 1..(Len(line) - 2) :
        \E c \in {"-", "="} : line[i] = c /\ line[i + 1] = c /\ line[i + 2] = c

\* C16: tables is detected exactly when at least two lines hold a pipe and
\* start with a pipe after stripping, and one of those lines holds --- or ===;
\* one such line alone, or two such lines without a separator, is no table.
C16_TableRule ==
    verdict # NoValue =>
        LET lines == Split(verdict.content, "\n")
            pipes == {n \in 1..Len(lines) : PipeLine(lines[n])}
        IN InSeq("tables", verdict.details) <=>
               /\ Cardinality(pipes) >= 2
               /\ \E n \in pipes : SeparatorLine(lines[n])

\* C16 witness: a text of two pipe lines, one of them a separator, was
\* classified as holding a table
C16_Witness ==
    /\ verdict # NoValue
    /\ LET lines == Split(verdict.content, "\n")
       IN /\ Len(lines) = 2
          /\ PipeLine(lines[1]) /\ ~SeparatorLine(lines[1])
          /\ PipeLine(lines[2]) /\ SeparatorLine(lines[2])
    /\ InSeq("tables", verdict.details)

\* the line, stripped, is three or more = or three or more -
Underline(line) ==
    LET stripped == Strip(line)
    IN /\ Len(stripped) >= 3
       /\ \E c \in {"=", "-"} : \A m \in 1..Len(stripped) : stripped[m] = c

\* some line starts with # after stripping
HasHashLine(lines) ==
    \E n \in 1..Len(lines) : ~Blank(lines[n]) /\ Strip(lines[n])[1] = "#"

\* C17: a Setext header is detected exactly when a non-empty line is
\* immediately followed by a line that, stripped, is three or more = or three
\* or more -; an underline of one or two characters, or one after a blank
\* line, is no header.  Stated on the texts without a # line, where headers
\* can only come from the Setext check.
C17_SetextRule ==
    verdict # NoValue =>
        LET lines == Split(verdict.content, "\n")
        IN ~HasHashLine(lines) =>
               (InSeq("headers", verdict.details) <=>
                    \E n \in 1..(Len(lines) - 1) :
                        ~Blank(lines[n]) /\ Underline(lines[n + 1]))

\* C17 witness: a text line followed by an underline of = was classified as
\* holding a header
C17_Witness ==
    /\ verdict # NoValue
    /\ LET lines == Split(verdict.content, "\n")
       IN /\ Len(lines) = 2
          /\ ~HasHashLine(lines)
          /\ ~Blank(lines[1])
          /\ Underline(lines[2]) /\ Strip(lines[2])[1] = "="
    /\ InSeq("headers", verdict.details)

(***************************************************************************)
(* Properties of the conversion handlers.                                  *)
(***************************************************************************)
\* the paths with a conversion result
Converted == {f \in Paths : conversion_results[f] # NoValue}

\* C13: every conversion result with success True has is_markdown True, so
\* select_file_to_view never shows the status of line 1718 on a converted
\* file, and the summary of start_conversion counts as many real Markdown
\* files as successful files.
C13_SuccessIsMarkdown ==
    /\ \A f \in Converted :
           conversion_results[f].success => conversion_results[f].is_markdown
    /\ status_bar.icon # "cross"
    /\ (snackbar # NoValue /\ snackbar.kind = "summary") =>
           snackbar.markdown = snackbar.successful

\* C13 witness: a batch of two files converted both with success, one of them
\* labelled plain-text, and the file shown carries the status of a success
C13_Witness ==
    /\ snackbar # NoValue /\ snackbar.kind = "summary"
    /\ snackbar.successful = 2 /\ snackbar.markdown = 2
    /\ \E f \in Converted :
           /\ conversion_results[f].success
           /\ conversion_results[f].validation_msg.status = "plain-text"
    /\ status_bar.icon \in {"check", "document", "memo"}

\* the analyses the quality gate can end with
Analyses ==
    {"empty content", "good quality", "acceptable quality", "insufficient quality"}

\* C19: the quality gate and the classifier are total: for every text, the
\* empty, whitespace-only, all-digit and single-character texts included,
\* each returns a defined result, and a conversion reaches the exception exit
\* only through the converter, never through the gate or the classifier.
C19_Total ==
    /\ \A f \in Gated :
           /\ gate[f].is_valid_content \in BOOLEAN
           /\ gate[f].quality_score \in 0..6
           /\ gate[f].content_analysis \in Analyses
    /\ verdict # NoValue =>
           /\ "exception" \notin DOMAIN verdict
           /\ verdict.is_valid \in BOOLEAN
           /\ verdict.status \in Labels \cup {"empty content"}
    /\ \A f \in Converted :
           LET result == conversion_results[f]
           IN (~result.success /\ result.validation_msg = "conversion exception") =>
                  result.error \in {"converter not initialized", "convert raised"}

\* C19 witness: the classifier returned on a text that is a lone #, which the
\* gate had rejected in a conversion that ended without an exception
C19_Witness ==
    /\ verdict # NoValue
    /\ verdict.content = <<"#">>
    /\ "exception" \notin DOMAIN verdict
    /\ "f1" \in Gated /\ "f1" \in Converted
    /\ conversion_results["f1"].validation_msg = "conversion failed"

AsAlone ==
    /\ \A f \in Running :
           /\ "gate" \in DOMAIN frame[f] => frame[f].gate = QualityGate(text_content[f])
           /\ "verdict" \in DOMAIN frame[f] =>
                  frame[f].verdict = ValidateOutcome(text_content[f])
    /\ \A f \in Converted :
           LET result == conversion_results[f]
           IN \/ ~result.success /\ result.error \in {"converter not initialized",
                                                      "convert raised"}
              \/ /\ result.success = QualityGate(text_content[f]).is_valid_content
                 /\ result.success =>
                        result.validation_msg = ValidateMarkdownContent(text_content[f])

\* a step of the gate or of the classifier is taken
ComputationStep ==
    \E f \in Paths : pc[f] \in {"gate", "validate"} /\ pc'[f] # pc[f]

BlockedOnOwnLock(c) ==
    /\ callers[c].at = "_execute_batch_update:38"
    /\ lock = [caller |-> c]

\* C21: immediate_update terminates: no thread that called it ever waits, in
\* _execute_batch_update, for the lock of the updater while holding that
\* lock itself.
C21_ImmediateUpdateReturns == \A c \in Callers : ~BlockedOnOwnLock(c)

\* the batches in which the function ran
BatchesOf(f) == {b \in 1..Len(executed) : InSeq(f, executed[b].functions)}

\* C22: no function passed to schedule_update runs in two batches, also when
\* an update function or page.update fails.
C22_RunInOneBatch == \A f \in 1..Len(timers) : Cardinality(BatchesOf(f)) <= 1

\* C23: at most one started and not yet fired timer exists, and
\* _update_timer refers to it.
C23_OneTimerReferredTo ==
    /\ Cardinality(Started) <= 1
    /\ \A t \in Started : update_timer = [timer |-> t]

(***************************************************************************)
(* Properties of the file list.                                            *)
(***************************************************************************)
\* C24: every key of conversion_results is a selected file, and
\* current_selected_file is None or a selected file.
C24_ResultsOfSelectedFiles ==
    /\ \A f \in Paths : conversion_results[f] # NoValue => InSeq(f, selected_files)
    /\ current_selected_file # None => InSeq(current_selected_file, selected_files)

(***************************************************************************)
(* Properties of the history and of the recent files.                      *)
(***************************************************************************)
\* the step is a call of convert_file_internal on f that put one record at
\* the head of the history, with the success flag of the result
RecordedOnce(f) ==
    /\ conversion_results'[f] # NoValue
    /\ Len(history') = Len(history) + 1
    /\ Tail(history') = history
    /\ history'[1].files = <<f>>
    /\ history'[1].success = conversion_results'[f].success

\* C25: every call of convert_file_internal adds exactly one record to the
\* history, and its success flag is the one of the returned result: every
\* step that leaves the file list alone is a conversion of the file it
\* selects, and it recorded once.
C25_OneRecordPerCall ==
    [][selected_files' = selected_files => RecordedOnce(current_selected_file')]_vars

\* a conversion that raised was recorded, then an accepted one
C25_Witness ==
    /\ Len(history) = 2
    /\ history[1].success /\ ~history[2].success
    /\ history[2].error_msg = "convert raised"
    /\ conversion_results["f1"] # NoValue /\ conversion_results["f1"].success

\* the last call added a record
Added == last_call # NoValue /\ last_call.op \in {"add_conversion", "add_record"}

\* the first n elements of a list
Prefix(list, n) == SubSeq(list, 1, IF Len(list) < n THEN Len(list) ELSE n)

\* C26: the history holds at most 100 records, newest first, and they are
\* the most recently added ones: the i-th record is the i-th last one added,
\* and a call that adds a record keeps all the records there were, except
\* the oldest when there were 100.
C26_NewestHundred ==
    /\ Len(history) <= HistoryLimit
    /\ \A i \in 1..Len(history) : history[i].timestamp = now - i
    /\ Added => /\ history # <<>>
                /\ Tail(history) = Prefix(last_call.before, HistoryLimit - 1)

\* a record was added to a full history
C26_Witness ==
    /\ Added
    /\ Len(last_call.before) = HistoryLimit
    /\ Len(history) = HistoryLimit

\* C27: no two records of the history have the same id.
C27_UniqueIds ==
    \A i, j \in 1..Len(history) : i # j => history[i].id # history[j].id

\* the last call was add_recent_file
AddedRecent == last_call # NoValue /\ last_call.op = "add_recent_file"

\* C28: the recent files are at most max_recent, their paths differ, and a
\* file added that exists is first; adding a path of the list moves it to
\* the front without growing the list, and adding a path that does not
\* exist changes nothing.
C28_RecentFiles ==
    /\ Len(recent_files) <= max_recent
    /\ \A i, j \in 1..Len(recent_files) :
           i # j => recent_files[i].path # recent_files[j].path
    /\ AddedRecent /\ last_call.path \in disk =>
           /\ recent_files # <<>>
           /\ recent_files[1] = [path |-> last_call.path, success |-> last_call.success]
           /\ Tail(recent_files) =
                  Prefix(RemoveRecentFile(last_call.before, last_call.path), max_recent - 1)
    /\ AddedRecent /\ (\E f \in Named(last_call.before) : f.path = last_call.path) =>
           Len(recent_files) = Len(last_call.before)
    /\ AddedRecent /\ last_call.path \notin disk => recent_files = last_call.before

\* a path of a full list was added again and moved from the back to the front
C28_Witness ==
    /\ AddedRecent
    /\ Len(last_call.before) = max_recent
    /\ max_recent > 1
    /\ last_call.before[max_recent].path = last_call.path
    /\ recent_files[1].path = last_call.path

(***************************************************************************)
(* Properties of the UICache.                                              *)
(***************************************************************************)
\* the last call was a put
PutCalled == last_call # NoValue /\ last_call.op = "put"

\* the last call was a put of a new key into a full cache
PutIntoFull ==
    /\ PutCalled
    /\ last_call.cache[last_call.key] = NoValue
    /\ Cardinality(Keys(last_call.cache)) >= max_size

\* C29: for every max_size from 0 on, the cache holds at most max_size
\* entries, _access_order lists exactly the keys of the cache, each once,
\* put never fails, and a put of a new key into a full cache evicts exactly
\* the key at the head of the order, the least recently used one.
C29_BoundedLRU ==
    /\ Cardinality(Keys(cache)) <= max_size
    /\ Named(access_order) = Keys(cache)
    /\ Len(access_order) = Cardinality(Keys(cache))
    /\ PutCalled => last_call.raised = ""
    /\ PutIntoFull /\ last_call.access_order # <<>> =>
           Keys(cache) = (Keys(last_call.cache) \ {Head(last_call.access_order)})
                             \cup {last_call.key}
====
